---- MODULE Spec2Model ----
(***************************************************************************)
(* State-machine model of the DRL scheduler (src/src/drl-scheduler):       *)
(*   scheduler/state_observer.py  ClusterStateObserver                     *)
(*   scheduler/drl_agent.py       DRLAgent                                 *)
(*   scheduler/k8s_scheduler.py   DRLScheduler                             *)
(*   api/server.py                management API (own thread)              *)
(*                                                                         *)
(* Numbers.  CPU is counted in millicores, memory in bytes, ratios and     *)
(* epsilon in thousandths (1000 = 1.0); a float division a / b is          *)
(* (a * 1000) \div b.                                                      *)
(***************************************************************************)
EXTENDS Integers, Sequences, FiniteSets, TLC

(***************************************************************************)
(* Bounds of the model.                                                    *)
(***************************************************************************)
\* admission events the orchestrator produces in one behaviour
MaxEvents == 2
\* periodic observer refreshes (after the one of initialize) in one behaviour
MaxRefresh == 1
\* capacity of the replay buffer: deque(maxlen=10000), scaled down
maxlen == 2
\* operations issued against the agent in one behaviour of SpecAgent
MaxOps == 5
\* requests the management API serves in one behaviour of SpecConc
MaxApi == 2
\* the largest number of nodes in a snapshot the load-balance reward is asked about
MaxBalanceNodes == 5

\* Python's None where a string is expected
None == "None"
\* a missing object: None or {} where a record is expected
Absent == [absent |-> TRUE]

Max(a, b) == IF a >= b THEN a ELSE b
Min(a, b) == IF a <= b THEN a ELSE b

RECURSIVE SumSeq(_)
SumSeq(s) == IF s = <<>> THEN 0 ELSE Head(s) + SumSeq(Tail(s))

RECURSIVE SumOver(_, _)
\* sum of f[x] over the finite set S
SumOver(f, S) ==
    IF S = {} THEN 0
    ELSE LET x == CHOOSE y \in S : TRUE IN f[x] + SumOver(f, S \ {x})

Range(s) == {s[i] : i \in 1..Len(s)}

VARIABLES
    config,            \* SchedulerConfig, fixed after construction
    k8s_nodes,         \* orchestrator: the node list, in list_node() order
    k8s_pods,          \* orchestrator: pod name -> pod object (or Absent)
    events,            \* watch stream: admission events not yet consumed
    n_events,          \* events produced so far
    clock,             \* refresh rounds started so far (the timestamps)
    node_metrics,      \* ClusterStateObserver.node_metrics
    pod_metrics,       \* ClusterStateObserver.pod_metrics
    cluster_state,     \* ClusterStateObserver.cluster_state
    memory,            \* DRLAgent.memory (replay buffer)
    epsilon,           \* DRLAgent.epsilon
    total_steps,       \* DRLAgent.total_steps
    policy_net,        \* DRLAgent.policy_net parameters (version)
    value_net,         \* DRLAgent.value_net parameters (version)
    optimizer,         \* DRLAgent.optimizer state (Absent before initialize)
    scheduled_pods,    \* DRLScheduler.scheduled_pods
    failed_schedules,  \* DRLScheduler.failed_schedules
    training_episodes, \* DRLScheduler.training_episodes
    initialised,       \* DRLScheduler.initialize() has run
    last,              \* what the last handler did (its locals and result)
    n_ops,             \* agent operations issued (SpecAgent)
    loop_task,         \* coroutine holding the event-loop thread
    run_pc,            \* position of the DRLScheduler.run() task
    periodic_pc,       \* position of the _periodic_update() task
    refresh_i,         \* nodes stored so far by the refresh in progress
    frame,             \* locals of the _schedule_pod frame in progress
    api_pc,            \* position of the management API thread
    n_api,             \* API requests served so far
    observed,          \* what the last get_state() call returned, and to whom
    checkpoint         \* the file <model_path>/<model_name>.pt (Absent: no file)

clusterVars == <<k8s_nodes, k8s_pods, events, n_events>>
obsVars     == <<clock, node_metrics, pod_metrics, cluster_state>>
agentVars   == <<memory, epsilon, total_steps, policy_net, value_net, optimizer>>
schedVars   == <<scheduled_pods, failed_schedules, training_episodes>>
concVars    == <<loop_task, run_pc, periodic_pc, refresh_i, frame, api_pc, n_api, observed>>
vars == <<config, clusterVars, obsVars, agentVars, schedVars, initialised, last,
          n_ops, concVars, checkpoint>>

(***************************************************************************)
(* Resource quantities: a quantity string is a number and a unit suffix.   *)
(***************************************************************************)
Qty(n, unit) == [n |-> n, unit |-> unit]

\* _parse_cpu: "500m" -> 0.5 cores, "2" -> 2 cores (here in millicores)
_parse_cpu(q) == IF q.unit = "m" THEN q.n ELSE q.n * 1000

Ki == 1024
\* _parse_memory: the binary and decimal suffixes, else plain bytes
_parse_memory(q) ==
    CASE q.unit = "Ki" -> q.n * Ki
      [] q.unit = "Mi" -> q.n * Ki * Ki
      [] q.unit = "K"  -> q.n * 1000
      [] q.unit = "M"  -> q.n * 1000 * 1000
      [] OTHER         -> q.n

(***************************************************************************)
(* The orchestrator's objects (kubernetes client models).                  *)
(***************************************************************************)
Taint(k, v, e)      == [key |-> k, value |-> v, effect |-> e]
Toleration(k, o, v) == [key |-> k, operator |-> o, value |-> v]
\* a container with resources.requests {cpu, memory}; Absent = key absent
Container(cpu, mem) == [cpu |-> cpu, memory |-> mem]

NodeNames == {"n1", "n2"}
PodNames  == {"p1", "p2"}

\* what the second node of the cluster may look like
Node2Choices ==
    { [ready |-> r, taints |-> ts] :
        r \in BOOLEAN,
        ts \in { <<>>,
                 <<Taint("dedicated", "gpu", "NoSchedule")>>,
                 <<Taint("dedicated", "gpu", "NoExecute")>>,
                 <<Taint("dedicated", "gpu", "PreferNoSchedule")>>,
                 <<Taint("zone", "a", "PreferNoSchedule"), Taint("dedicated", "gpu", "NoSchedule")>> } }

Tainted  == [ready |-> TRUE, taints |-> <<Taint("dedicated", "gpu", "NoSchedule")>>]
Untainted == [ready |-> TRUE, taints |-> <<>>]

\* n1: 4 cores, ready, untainted; n2: 2 cores, as chosen.  has_spec: the
\* descriptor carries a spec (node.spec is not None)
ClusterNodes(c2) ==
    << [name |-> "n1", ready |-> TRUE, has_spec |-> TRUE, taints |-> <<>>,
        allocatable |-> [cpu |-> Qty(4, ""), memory |-> Qty(8, "Ki")],
        labels |-> {<<"disk", "ssd">>}],
       [name |-> "n2", ready |-> c2.ready, has_spec |-> TRUE, taints |-> c2.taints,
        allocatable |-> [cpu |-> Qty(2, ""), memory |-> Qty(4, "Ki")],
        labels |-> {<<"disk", "hdd">>}] >>

\* workloads of every shape the feasibility filter tells apart
PodSpecs ==
    { [containers |-> cs, tolerations |-> ts, node_selector |-> sel] :
        cs \in { <<Container(Qty(1, ""), Qty(1, "Ki"))>>,
                 <<Container(Qty(500, "m"), Absent)>>,
                 <<Container(Qty(3, ""), Qty(1, "Ki"))>>,
                 <<Container(Qty(1500, "m"), Absent), Container(Qty(1500, "m"), Absent)>>,
                 <<Container(Absent, Absent)>> },
        ts \in { <<>>,
                 <<Toleration("dedicated", "Exists", None)>>,
                 <<Toleration("dedicated", "Equal", "gpu")>>,
                 <<Toleration("dedicated", "Equal", "db")>>,
                 <<Toleration("zone", "Exists", None)>>,
                 <<Toleration("zone", "Equal", "gpu"), Toleration("dedicated", "Equal", "gpu")>> },
        sel \in { {}, {<<"disk", "ssd">>}, {<<"disk", "hdd">>} } }

\* the workloads admitted while the scheduling loop runs: 1 core, and 3
\* cores, which fit no node
AdmittedSpecs ==
    { [containers |-> <<Container(Qty(1, ""), Qty(1, "Ki"))>>,
       tolerations |-> <<>>, node_selector |-> {}],
      [containers |-> <<Container(Qty(3, ""), Qty(1, "Ki"))>>,
       tolerations |-> <<Toleration("dedicated", "Exists", None)>>,
       node_selector |-> {}] }

Pod(name, spec, sched) ==
    [name |-> name, phase |-> "Pending", node_name |-> None,
     scheduler_name |-> sched, containers |-> spec.containers,
     tolerations |-> spec.tolerations, node_selector |-> spec.node_selector]

\* a workload that was placed on n1 by the default scheduler before start-up
Pod0 ==
    [name |-> "p0", phase |-> "Running", node_name |-> "n1",
     scheduler_name |-> None,
     containers |-> <<Container(Qty(2, ""), Qty(2, "Ki"))>>,
     tolerations |-> <<>>, node_selector |-> {}]

AllPodNames == PodNames \cup {"p0"}

NodeByName(name) == CHOOSE n \in Range(k8s_nodes) : n.name = name

(***************************************************************************)
(* ClusterStateObserver                                                    *)
(***************************************************************************)
\* requests.get('cpu', '0') summed over the containers that carry requests
RequestedCpu(containers) ==
    SumSeq([i \in 1..Len(containers) |->
        IF containers[i].cpu = Absent /\ containers[i].memory = Absent THEN 0
        ELSE IF containers[i].cpu = Absent THEN 0
        ELSE _parse_cpu(containers[i].cpu)])

RequestedMemory(containers) ==
    SumSeq([i \in 1..Len(containers) |->
        IF containers[i].cpu = Absent /\ containers[i].memory = Absent THEN 0
        ELSE IF containers[i].memory = Absent THEN 0
        ELSE _parse_memory(containers[i].memory)])

\* list_pod_for_all_namespaces(field_selector='spec.nodeName=<node>')
PodsOnNode(pods, name) ==
    {p \in AllPodNames : pods[p] # Absent /\ pods[p].node_name = name}

\* a / b as the code guards it: "a / b if b > 0 else 0"
Ratio(a, b) == IF b > 0 THEN (a * 1000) \div b ELSE 0

\* the node_metrics entry _collect_node_metrics builds for one node
NodeEntry(node, pods, t) ==
    LET on   == PodsOnNode(pods, node.name)
        cpuA == _parse_cpu(node.allocatable.cpu)
        memA == _parse_memory(node.allocatable.memory)
        cpuU == SumOver([p \in AllPodNames |->
                    IF pods[p] = Absent THEN 0 ELSE RequestedCpu(pods[p].containers)], on)
        memU == SumOver([p \in AllPodNames |->
                    IF pods[p] = Absent THEN 0 ELSE RequestedMemory(pods[p].containers)], on)
    IN [cpu_allocatable |-> cpuA, memory_allocatable |-> memA,
        cpu_used |-> cpuU, memory_used |-> memU,
        cpu_usage |-> Ratio(cpuU, cpuA), memory_usage |-> Ratio(memU, memA),
        pod_count |-> Cardinality(on), is_ready |-> node.ready,
        taints |-> node.taints, labels |-> node.labels, timestamp |-> t]

\* node_metrics after the loop of _collect_node_metrics has stored the first
\* `upto` nodes: entries are overwritten in place, the others are kept
_collect_node_metrics(nm, upto, t) ==
    [name \in NodeNames |->
        IF \E i \in 1..upto : k8s_nodes[i].name = name
        THEN NodeEntry(NodeByName(name), k8s_pods, t)
        ELSE nm[name]]

\* _collect_pod_metrics: one entry per listed pod; no entry is ever removed
_collect_pod_metrics(pm, t) ==
    [p \in AllPodNames |->
        IF k8s_pods[p] = Absent THEN pm[p]
        ELSE [cpu_request |-> RequestedCpu(k8s_pods[p].containers),
              memory_request |-> RequestedMemory(k8s_pods[p].containers),
              phase |-> k8s_pods[p].phase, node |-> k8s_pods[p].node_name,
              timestamp |-> t]]

Known(nm) == {name \in NodeNames : nm[name] # Absent}

\* _calculate_cluster_metrics: unchanged when node_metrics is empty
_calculate_cluster_metrics(cs, nm, t) ==
    IF Known(nm) = {} THEN cs
    ELSE LET total_cpu    == SumOver([n \in NodeNames |-> IF nm[n] = Absent THEN 0 ELSE nm[n].cpu_allocatable], Known(nm))
             total_memory == SumOver([n \in NodeNames |-> IF nm[n] = Absent THEN 0 ELSE nm[n].memory_allocatable], Known(nm))
             used_cpu     == SumOver([n \in NodeNames |-> IF nm[n] = Absent THEN 0 ELSE nm[n].cpu_used], Known(nm))
             used_memory  == SumOver([n \in NodeNames |-> IF nm[n] = Absent THEN 0 ELSE nm[n].memory_used], Known(nm))
         IN [total_cpu |-> total_cpu, total_memory |-> total_memory,
             used_cpu |-> used_cpu, used_memory |-> used_memory,
             cluster_cpu_usage |-> Ratio(used_cpu, total_cpu),
             cluster_memory_usage |-> Ratio(used_memory, total_memory),
             total_pods |-> SumOver([n \in NodeNames |-> IF nm[n] = Absent THEN 0 ELSE nm[n].pod_count], Known(nm)),
             total_nodes |-> Cardinality(Known(nm)),
             ready_nodes |-> Cardinality({n \in Known(nm) : nm[n].is_ready}),
             timestamp |-> t]

\* how a refresh can end: "ok", or an ApiException ("api_...") or another
\* exception ("exc_...") raised after `at` nodes were stored
RefreshOutcomes ==
    {[kind |-> "ok", at |-> Len(k8s_nodes)]}
    \cup {[kind |-> k, at |-> i] : k \in {"api_nodes", "exc_nodes"}, i \in 0..(Len(k8s_nodes) - 1)}
    \cup {[kind |-> k, at |-> Len(k8s_nodes)] : k \in {"api_pods", "exc_pods"}}

\* the outcomes that differ in what node_metrics holds afterwards, which is
\* all a scheduling pass reads of the observer besides the snapshot it stores
NodeRefreshOutcomes == {o \in RefreshOutcomes : o.kind \in {"ok", "api_nodes"}}

\* update_state: an ApiException is swallowed inside the collector that
\* raised it and the next collector runs; any other exception ends the refresh
update_state(o) ==
    LET t  == clock + 1
        nm == _collect_node_metrics(node_metrics, o.at, t)
    IN /\ clock' = t
       /\ node_metrics' = nm
       /\ pod_metrics' = IF o.kind \in {"ok", "api_nodes"}
                         THEN _collect_pod_metrics(pod_metrics, t) ELSE pod_metrics
       /\ cluster_state' = IF o.kind \in {"ok", "api_nodes", "api_pods"}
                           THEN _calculate_cluster_metrics(cluster_state, nm, t)
                           ELSE cluster_state

\* get_state: shallow copies of the two caches plus the aggregates
get_state == [nodes |-> node_metrics, pods |-> pod_metrics, cluster |-> cluster_state]

\* get_node_metrics: node_metrics.get(name, {})
get_node_metrics(name) == node_metrics[name]

(***************************************************************************)
(* DRLAgent                                                                *)
(***************************************************************************)
\* _get_state_dimension: the input width the networks are built with
_get_state_dimension == 10 * config.max_nodes + 8 + 6

\* len(_encode_state(...)): 10 per eligible node, padded up to max_nodes
\* nodes (never truncated), then 8 pod and 6 cluster features
_encode_state(eligible_nodes) ==
    10 * Max(Len(eligible_nodes), config.max_nodes) + 8 + 6

\* outputs of the policy head, one per action; 0 is a probability that
\* underflowed.  The networks are never put in eval() mode, so Dropout(0.1)
\* is active in every forward pass and the output is not a function of the
\* parameters and the input alone.
ActionProbs == [1..config.max_nodes -> 0..2]

\* "self.epsilon = max(epsilon_end, self.epsilon * epsilon_decay)"
Decay(eps) == Max(config.epsilon_end, (eps * config.epsilon_decay) \div 1000)

\* a variant whose random fallback draws from every node of the cluster
_select_best_node_any(action_probs, eligible_nodes) ==
    {[node |-> n, path |-> "fallback"] : n \in NodeNames}

\* _select_best_node: the nodes it can return for one forward result
_select_best_node(action_probs, eligible_nodes) ==
    LET masked == [i \in 1..config.max_nodes |->
                      IF i <= Len(eligible_nodes) THEN action_probs[i] ELSE 0]
        total  == SumSeq(masked)
        \* np.argmax: the first index holding the maximum
        node_idx == CHOOSE i \in 1..config.max_nodes :
                       /\ \A j \in 1..config.max_nodes : masked[j] <= masked[i]
                       /\ \A j \in 1..(i - 1) : masked[j] < masked[i]
    IN IF total > 0 /\ node_idx <= Len(eligible_nodes)
       THEN {[node |-> eligible_nodes[node_idx], path |-> "exploit"]}
       ELSE {[node |-> n, path |-> "fallback"] : n \in Range(eligible_nodes)}

\* a variant without the early return on an empty eligible list
select_node_no_guard(eligible_nodes, eps) ==
    {[node |-> n, path |-> "explore", epsilon |-> Decay(eps)] : n \in NodeNames}

\* select_node: every (result, new epsilon) it can produce.  random.random()
\* lies in [0, 1): exploring needs epsilon > 0, exploiting needs epsilon < 1.
\* The forward pass raises on an input of the wrong width, and with one
\* action squeeze() leaves a 0-d array whose len() raises: no decay then.
select_node(eligible_nodes, eps) ==
    IF eligible_nodes = <<>>
    THEN {[node |-> None, path |-> "empty", epsilon |-> eps]}
    ELSE (IF eps > 0
          THEN {[node |-> n, path |-> "explore", epsilon |-> Decay(eps)] :
                    n \in Range(eligible_nodes)}
          ELSE {})
         \cup
         (IF eps < 1000
          THEN IF _encode_state(eligible_nodes) # _get_state_dimension
                  \/ config.max_nodes = 1
               THEN {[node |-> None, path |-> "raise", epsilon |-> eps]}
               ELSE UNION {{[node |-> r.node, path |-> r.path, epsilon |-> Decay(eps)] :
                               r \in _select_best_node(ap, eligible_nodes)} :
                           ap \in ActionProbs}
          ELSE {})

\* Experience(state, action, reward, next_state, done=False); id tells the
\* objects apart: the n-th Experience constructed has id n
Experience(state, action, reward, next_state, id) ==
    [state |-> state, action |-> action, reward |-> reward,
     next_state |-> next_state, done |-> FALSE, id |-> id]

\* a variant that drops the newest element of a full deque instead
deque_append_keep_old(mem, exp) ==
    IF Len(mem) >= maxlen THEN mem ELSE Append(mem, exp)

\* deque(maxlen).append: a full deque drops its oldest element
deque_append(mem, exp) ==
    IF Len(mem) >= maxlen THEN Append(Tail(mem), exp) ELSE Append(mem, exp)

\* a variant that keeps only the experiences with a positive reward
store_experience_rewarded(mem, steps, state, action, reward, next_state) ==
    IF reward > 0
    THEN deque_append(mem, Experience(state, action, reward, next_state, steps + 1))
    ELSE mem

\* store_experience: the replay buffer afterwards
store_experience(mem, steps, state, action, reward, next_state) ==
    deque_append(mem, Experience(state, action, reward, next_state, steps + 1))

\* a variant that skips only on an empty buffer
train_skips_if_empty(mem) == Len(mem) = 0

\* train: "len(self.memory) < batch_size" returns {} before anything is touched
train_skips(mem) == Len(mem) < config.batch_size

\* train: "random.sample(self.memory, batch_size)" raises ValueError for a
\* negative batch_size (BATCH_SIZE is read from the environment unvalidated)
train_raises(mem) == ~train_skips(mem) /\ config.batch_size < 0

\* train: the agent after a call that returns, and the metrics returned
train(mem, pnet, vnet, opt, eps) ==
    IF train_skips(mem)
    THEN [policy_net |-> pnet, value_net |-> vnet, optimizer |-> opt,
          metrics |-> Absent]
    ELSE [policy_net |-> pnet + 1, value_net |-> vnet + 1,
          optimizer |-> [steps |-> opt.steps + 1],
          metrics |-> [epsilon |-> eps]]

\* DRLAgent.__init__ followed by initialize() without a pretrained model
AgentInit ==
    /\ memory = <<>>
    /\ epsilon = config.epsilon_start
    /\ total_steps = 0
    /\ policy_net = 0
    /\ value_net = 0
    /\ optimizer = [steps |-> 0]

(***************************************************************************)
(* Configurations (SchedulerConfig): every field is read from the          *)
(* environment and only reward weights, gamma and learning rate are        *)
(* validated, so each of these passes __post_init__.                       *)
(***************************************************************************)
BaseConfig ==
    [scheduler_name |-> "drl-scheduler", enable_taints |-> TRUE,
     enable_training |-> TRUE, training_interval |-> 2, batch_size |-> 2,
     max_nodes |-> 2, use_pretrained |-> FALSE,
     epsilon_start |-> 1000, epsilon_end |-> 10, epsilon_decay |-> 995]

\* EPSILON_START / EPSILON_END / EPSILON_DECAY
EpsilonChoices ==
    { [epsilon_start |-> 1000, epsilon_end |-> 10,  epsilon_decay |-> 995],  \* defaults
      [epsilon_start |-> 1000, epsilon_end |-> 250, epsilon_decay |-> 500],
      [epsilon_start |-> 0,    epsilon_end |-> 0,   epsilon_decay |-> 995],
      [epsilon_start |-> 1000, epsilon_end |-> 10,  epsilon_decay |-> 1500],
      [epsilon_start |-> 5,    epsilon_end |-> 10,  epsilon_decay |-> 995] }

WithEpsilon(c, e) ==
    [c EXCEPT !.epsilon_start = e.epsilon_start, !.epsilon_end = e.epsilon_end,
              !.epsilon_decay = e.epsilon_decay]

AgentConfigs ==
    {[WithEpsilon(BaseConfig, e) EXCEPT !.batch_size = b, !.max_nodes = m] :
        e \in EpsilonChoices, b \in {1, 2}, m \in {1, 2}}

(***************************************************************************)
(* Initial values of the parts of the state.                               *)
(***************************************************************************)
ClusterInit(c2) ==
    /\ k8s_nodes = ClusterNodes(c2)
    /\ k8s_pods = [p \in AllPodNames |-> IF p = "p0" THEN Pod0 ELSE Absent]
    /\ events = <<>>
    /\ n_events = 0

\* ClusterStateObserver.__init__
ObserverInit ==
    /\ clock = 0
    /\ node_metrics = [n \in NodeNames |-> Absent]
    /\ pod_metrics = [p \in AllPodNames |-> Absent]
    /\ cluster_state = Absent

\* DRLScheduler.__init__
SchedulerInit ==
    /\ scheduled_pods = 0
    /\ failed_schedules = 0
    /\ training_episodes = 0

NoOp == [op |-> "none"]

\* no checkpoint has been written to model_path
DiskInit == checkpoint = Absent

\* the tasks and threads of main.py before any of them has run
ThreadsInit ==
    /\ loop_task = "none"
    /\ run_pc = "created"
    /\ periodic_pc = "sleep"
    /\ refresh_i = 0
    /\ frame = Absent
    /\ api_pc = "idle"
    /\ n_api = 0
    /\ observed = Absent

(***************************************************************************)
(* SpecAgent: the agent's operations called in any order with any          *)
(* arguments, as the scheduling loop and the management API call them.     *)
(***************************************************************************)
EligibleLists == {<<>>, <<"n1">>, <<"n1", "n2">>}
Rewards == {0, 500}

AgentSelect ==
    /\ n_ops < MaxOps
    /\ \E el \in EligibleLists : \E r \in select_node(el, epsilon) :
          /\ epsilon' = r.epsilon
          /\ last' = [op |-> "select_node", eligible |-> el, node |-> r.node,
                      path |-> r.path]
    /\ n_ops' = n_ops + 1
    /\ UNCHANGED <<memory, total_steps, policy_net, value_net, optimizer>>
    /\ UNCHANGED <<config, checkpoint, clusterVars, obsVars, schedVars, initialised, concVars>>

AgentStore ==
    /\ n_ops < MaxOps
    /\ \E a \in NodeNames : \E rw \in Rewards :
          memory' = store_experience(memory, total_steps, get_state, a, rw, get_state)
    /\ total_steps' = total_steps + 1
    /\ last' = [op |-> "store_experience"]
    /\ n_ops' = n_ops + 1
    /\ UNCHANGED <<epsilon, policy_net, value_net, optimizer>>
    /\ UNCHANGED <<config, checkpoint, clusterVars, obsVars, schedVars, initialised, concVars>>

AgentTrain ==
    /\ n_ops < MaxOps
    /\ LET r == train(memory, policy_net, value_net, optimizer, epsilon)
       IN /\ policy_net' = r.policy_net
          /\ value_net' = r.value_net
          /\ optimizer' = r.optimizer
          /\ last' = [op |-> "train", metrics |-> r.metrics]
    /\ n_ops' = n_ops + 1
    /\ UNCHANGED <<memory, epsilon, total_steps>>
    /\ UNCHANGED <<config, checkpoint, clusterVars, obsVars, schedVars, initialised, concVars>>

InitAgent ==
    /\ config \in AgentConfigs
    /\ ClusterInit(Tainted)
    /\ ObserverInit
    /\ AgentInit
    /\ SchedulerInit
    /\ ThreadsInit
    /\ DiskInit
    /\ initialised = TRUE
    /\ last = NoOp
    /\ n_ops = 0

NextAgent == AgentSelect \/ AgentStore \/ AgentTrain

SpecAgent == InitAgent /\ [][NextAgent]_vars

(***************************************************************************)
(* SpecCheckpoint: the agent's operations together with save_model,        *)
(* load_model (POST /model/save, /model/load, shutdown) and the start of   *)
(* a new process, whose agent is built afresh by initialize().             *)
(***************************************************************************)
\* the agent's fields load_model can write
AgentFields ==
    [policy_net |-> policy_net, value_net |-> value_net, optimizer |-> optimizer,
     epsilon |-> epsilon, total_steps |-> total_steps]

\* save_model: the checkpoint dictionary handed to torch.save
save_model(agent) ==
    [policy_state_dict |-> agent.policy_net, value_state_dict |-> agent.value_net,
     optimizer_state_dict |-> agent.optimizer,
     epsilon |-> agent.epsilon, total_steps |-> agent.total_steps]

\* a variant that falls back to the defaults of checkpoint.get() when the
\* file is missing
load_model_defaults(agent, ckpt) ==
    IF ckpt = Absent
    THEN [agent EXCEPT !.epsilon = config.epsilon_start, !.total_steps = 0]
    ELSE [agent EXCEPT !.policy_net = ckpt.policy_state_dict,
                       !.value_net = ckpt.value_state_dict,
                       !.optimizer = ckpt.optimizer_state_dict,
                       !.epsilon = ckpt.epsilon, !.total_steps = ckpt.total_steps]

\* load_model: the agent afterwards.  No file: return.  Otherwise the five
\* assignments run in order inside one try; self.optimizer is still None
\* when initialize() calls load_model, so optimizer.load_state_dict raises
\* there and the except ends the load after the two networks.
load_model(agent, ckpt) ==
    IF ckpt = Absent THEN agent
    ELSE IF agent.optimizer = Absent
    THEN [agent EXCEPT !.policy_net = ckpt.policy_state_dict,
                       !.value_net = ckpt.value_state_dict]
    ELSE [agent EXCEPT !.policy_net = ckpt.policy_state_dict,
                       !.value_net = ckpt.value_state_dict,
                       !.optimizer = ckpt.optimizer_state_dict,
                       !.epsilon = ckpt.epsilon, !.total_steps = ckpt.total_steps]

\* DRLAgent.__init__: no networks, no optimizer yet
FreshAgent ==
    [policy_net |-> 0, value_net |-> 0, optimizer |-> Absent,
     epsilon |-> config.epsilon_start, total_steps |-> 0]

\* DRLAgent.initialize on a fresh agent: networks, the load if
\* use_pretrained, and only then a new optimizer
agent_initialize(ckpt) ==
    LET loaded == IF config.use_pretrained THEN load_model(FreshAgent, ckpt)
                  ELSE FreshAgent
    IN [loaded EXCEPT !.optimizer = [steps |-> 0]]

SaveModel ==
    /\ n_ops < MaxOps
    /\ checkpoint' = save_model(AgentFields)
    /\ last' = [op |-> "save_model"]
    /\ n_ops' = n_ops + 1
    /\ UNCHANGED <<config, clusterVars, obsVars, agentVars, schedVars,
                   initialised, concVars>>

\* load_model on the running agent
LoadModel ==
    /\ n_ops < MaxOps
    /\ LET a == load_model(AgentFields, checkpoint)
       IN /\ policy_net' = a.policy_net
          /\ value_net' = a.value_net
          /\ optimizer' = a.optimizer
          /\ epsilon' = a.epsilon
          /\ total_steps' = a.total_steps
    /\ last' = [op |-> "load_model", loads |-> TRUE]
    /\ n_ops' = n_ops + 1
    /\ UNCHANGED <<config, checkpoint, clusterVars, obsVars, memory, schedVars,
                   initialised, concVars>>

\* the process is started again: a fresh DRLAgent and its initialize()
Restart ==
    /\ n_ops < MaxOps
    /\ LET a == agent_initialize(checkpoint)
       IN /\ policy_net' = a.policy_net
          /\ value_net' = a.value_net
          /\ optimizer' = a.optimizer
          /\ epsilon' = a.epsilon
          /\ total_steps' = a.total_steps
    /\ memory' = <<>>
    /\ initialised' = TRUE
    /\ last' = [op |-> "initialize", loads |-> config.use_pretrained]
    /\ n_ops' = n_ops + 1
    /\ UNCHANGED <<config, checkpoint, clusterVars, obsVars, schedVars, concVars>>

\* USE_PRETRAINED; training on single experiences, so that few operations
\* change every part of the agent
CheckpointConfigs ==
    {[BaseConfig EXCEPT !.use_pretrained = u, !.batch_size = 1] : u \in BOOLEAN}

InitCheckpoint ==
    /\ config \in CheckpointConfigs
    /\ ClusterInit(Tainted)
    /\ ObserverInit
    /\ AgentInit
    /\ SchedulerInit
    /\ ThreadsInit
    /\ DiskInit
    /\ initialised = TRUE
    /\ last = NoOp
    /\ n_ops = 0

NextCheckpoint ==
    AgentSelect \/ AgentStore \/ AgentTrain \/ SaveModel \/ LoadModel \/ Restart

SpecCheckpoint == InitCheckpoint /\ [][NextCheckpoint]_vars

\* C11: an agent that has just loaded an existing checkpoint, by load_model
\* or inside the initialize() of a fresh instance with use_pretrained, has
\* the epsilon and the step counter the checkpoint was saved with.
C11_SaveLoadRoundTrip ==
    (last.op \in {"load_model", "initialize"} /\ last.loads /\ checkpoint # Absent) =>
        /\ epsilon = checkpoint.epsilon
        /\ total_steps = checkpoint.total_steps

\* C12: load_model without a checkpoint file changes nothing of the agent
\* and creates no file; a fresh agent initialised with use_pretrained and no
\* file is the freshly initialised agent.
C12_LoadMissingUntouched ==
    [][ (n_ops' = n_ops + 1 /\ checkpoint = Absent) =>
            /\ last'.op = "load_model" => (UNCHANGED agentVars /\ checkpoint' = Absent)
            /\ last'.op = "initialize" =>
                  /\ epsilon' = config.epsilon_start
                  /\ total_steps' = 0
                  /\ policy_net' = 0 /\ value_net' = 0
                  /\ optimizer' = [steps |-> 0] ]_vars

\* C12 witness: load_model found no file on an agent that had explored,
\* stored and trained, and left it so
C12_Witness ==
    /\ last.op = "load_model"
    /\ checkpoint = Absent
    /\ epsilon < config.epsilon_start
    /\ total_steps > 0
    /\ policy_net > 0

(***************************************************************************)
(* SpecLifecycle: the agent of a process that runs, is shut down and is    *)
(* started again.                                                          *)
(***************************************************************************)
\* a variant of shutdown that ends the process without saving
shutdown_no_save(agent, ckpt) == ckpt

\* DRLScheduler.shutdown: what the checkpoint file holds afterwards
shutdown(agent, ckpt) == IF agent # Absent THEN save_model(agent) ELSE ckpt

\* main(): SystemExit raised by signal_handler, or an exception of the loop,
\* unwinds through "finally: await manager.stop()", which runs
\* DRLScheduler.shutdown; then the process ends
Shutdown ==
    /\ initialised
    /\ n_ops < MaxOps
    /\ checkpoint' = shutdown(AgentFields, checkpoint)
    /\ initialised' = FALSE
    /\ last' = [op |-> "shutdown"]
    /\ n_ops' = n_ops + 1
    /\ UNCHANGED <<config, clusterVars, obsVars, agentVars, schedVars, concVars>>

\* an operation of the agent of the running process
RunningAgent == initialised /\ (AgentSelect \/ AgentStore \/ AgentTrain)

NextLifecycle == RunningAgent \/ Shutdown \/ Restart

SpecLifecycle == InitCheckpoint /\ [][NextLifecycle]_vars

\* C23: a shutdown of a process whose agent is initialised leaves a
\* checkpoint that holds the epsilon, the step counter and the parameters
\* the agent had at that moment.
C23_ShutdownPersists ==
    [][ (initialised /\ last'.op = "shutdown") =>
            /\ ~initialised'
            /\ checkpoint' # Absent
            /\ checkpoint'.epsilon = epsilon
            /\ checkpoint'.total_steps = total_steps
            /\ checkpoint'.policy_state_dict = policy_net
            /\ checkpoint'.value_state_dict = value_net ]_vars

\* C23 witness: the process was shut down after its agent had explored,
\* stored and trained, and the checkpoint holds what it had reached
C23_Witness ==
    /\ ~initialised
    /\ last.op = "shutdown"
    /\ checkpoint # Absent
    /\ checkpoint.epsilon = epsilon
    /\ epsilon < config.epsilon_start
    /\ checkpoint.total_steps > 0
    /\ checkpoint.policy_state_dict > 0

(***************************************************************************)
(* RewardCalculator: what the scheduling pass needs of it.                 *)
(***************************************************************************)
\* calculate_reward raises: a division by a zero allocatable or a zero
\* remaining amount in _resource_utilization_reward, or the lookup
\* nodes[selected_node] in _load_balance_reward on a node the snapshot lacks
calculate_reward_raises(pod, selected_node, state) ==
    LET nm == state.nodes[selected_node]
    IN \/ /\ nm # Absent
          /\ \/ nm.cpu_allocatable = 0
             \/ nm.memory_allocatable = 0
             \/ nm.cpu_allocatable - nm.cpu_used = 0
             \/ nm.memory_allocatable - nm.memory_used = 0
       \/ /\ Cardinality(Known(state.nodes)) >= 2
          /\ nm = Absent

(***************************************************************************)
(* DRLScheduler                                                            *)
(***************************************************************************)
\* a variant that does not look at the scheduler name
_needs_scheduling_any_scheduler(pod) ==
    /\ pod.phase = "Pending"
    /\ pod.node_name = None

\* _needs_scheduling
_needs_scheduling(pod) ==
    /\ pod.phase = "Pending"
    /\ pod.node_name = None
    /\ (IF pod.scheduler_name = None THEN "default-scheduler" ELSE pod.scheduler_name)
          = config.scheduler_name

\* _is_node_ready: a condition Ready with status "True" exists
_is_node_ready(node) == node.ready

\* a variant that matches a toleration on its key alone
_check_tolerations_key_only(pod, node) ==
    \/ node.taints = <<>>
    \/ \A t \in 1..Len(node.taints) :
          LET taint == node.taints[t]
              tolerated == \E k \in 1..Len(pod.tolerations) :
                              pod.tolerations[k].key = taint.key
          IN ~(~tolerated /\ taint.effect \in {"NoSchedule", "NoExecute"})

\* _check_tolerations
_check_tolerations(pod, node) ==
    \/ node.taints = <<>>
    \/ \A t \in 1..Len(node.taints) :
          LET taint == node.taints[t]
              tolerated == \E k \in 1..Len(pod.tolerations) :
                              LET toleration == pod.tolerations[k]
                              IN /\ toleration.key = taint.key
                                 /\ \/ toleration.operator = "Exists"
                                    \/ toleration.value = taint.value
          IN ~(~tolerated /\ taint.effect \in {"NoSchedule", "NoExecute"})

\* _check_resources: each container's request against allocatable - used,
\* where used is the observer's cached figure (0 for an unknown node)
_check_resources(pod, node) ==
    LET nm == get_node_metrics(node.name)
        cpu_used == IF nm = Absent THEN 0 ELSE nm.cpu_used
        memory_used == IF nm = Absent THEN 0 ELSE nm.memory_used
    IN \A c \in 1..Len(pod.containers) :
          LET requests == pod.containers[c]
          IN /\ requests.cpu # Absent =>
                   ~(_parse_cpu(requests.cpu) >
                       _parse_cpu(node.allocatable.cpu) - cpu_used)
             /\ requests.memory # Absent =>
                   ~(_parse_memory(requests.memory) >
                       _parse_memory(node.allocatable.memory) - memory_used)

\* _check_node_selectors
_check_node_selectors(pod, node) ==
    \A kv \in pod.node_selector : kv \in node.labels

\* float(s) raises ValueError when what is left of the string after the
\* suffixes the parser strips is not a number
_parse_cpu_raises(q) == q.unit \notin {"m", ""}

_parse_memory_raises(q) ==
    q.unit \notin {"Ki", "Mi", "Gi", "Ti", "K", "M", "G", "T", ""}

\* _check_tolerations raises AttributeError at node.spec.taints when the
\* node has no spec
_check_tolerations_raises(pod, node) == ~node.has_spec

\* _check_resources raises when it parses an allocatable quantity it cannot
\* read: check 2c-1 is the CPU check of container c, check 2c its memory
\* check, run in this order until one returns False
_check_resources_raises(pod, node) ==
    LET nm == get_node_metrics(node.name)
        cpu_used == IF nm = Absent THEN 0 ELSE nm.cpu_used
        memory_used == IF nm = Absent THEN 0 ELSE nm.memory_used
        IsCpu(k) == k % 2 = 1
        Req(k) == LET requests == pod.containers[(k + 1) \div 2]
                  IN IF IsCpu(k) THEN requests.cpu ELSE requests.memory
        Raises(k) ==
            /\ Req(k) # Absent
            /\ IF IsCpu(k) THEN _parse_cpu_raises(node.allocatable.cpu)
                           ELSE _parse_memory_raises(node.allocatable.memory)
        Fails(k) ==
            /\ Req(k) # Absent
            /\ ~Raises(k)
            /\ IF IsCpu(k)
               THEN _parse_cpu(Req(k)) > _parse_cpu(node.allocatable.cpu) - cpu_used
               ELSE _parse_memory(Req(k)) >
                        _parse_memory(node.allocatable.memory) - memory_used
    IN \E k \in 1..(2 * Len(pod.containers)) :
          Raises(k) /\ \A j \in 1..(k - 1) : ~Fails(j)

\* the loop body of _get_eligible_nodes raises for this node: the node is
\* ready and the taint check (when enabled) or the resource check raises
NodeRaises(pod, node) ==
    /\ _is_node_ready(node)
    /\ \/ config.enable_taints /\ _check_tolerations_raises(pod, node)
       \/ /\ (config.enable_taints => _check_tolerations(pod, node))
          /\ _check_resources_raises(pod, node)

\* _get_eligible_nodes: the names of the listed nodes that pass every
\* filter, in list order; [] when list_node() fails or the loop raises at
\* any node (one try/except encloses the whole loop)
_get_eligible_nodes(pod, list_ok) ==
    LET Passes(node) ==
            /\ _is_node_ready(node)
            /\ (config.enable_taints => _check_tolerations(pod, node))
            /\ _check_resources(pod, node)
            /\ _check_node_selectors(pod, node)
        kept == SelectSeq(k8s_nodes, Passes)
    IN IF list_ok /\ ~\E i \in 1..Len(k8s_nodes) : NodeRaises(pod, k8s_nodes[i])
       THEN [i \in 1..Len(kept) |-> kept[i].name] ELSE <<>>

\* the orchestrator accepts a binding only for a pod it still holds unassigned
BindOutcomes(pod) ==
    IF k8s_pods[pod.name] # Absent /\ k8s_pods[pod.name].node_name = None
    THEN {TRUE, FALSE} ELSE {FALSE}

\* the reward is a float computed from the snapshot; only whether its
\* computation raises steers the pass, so the pass carries one value
PassRewards == {500}

\* a variant in which a refused binding request is sent a second time
bind_requests_retrying(bind) ==
    IF bind = "none" THEN <<>>
    ELSE IF bind = "failed" THEN <<"failed", "failed">> ELSE <<bind>>

\* the binding requests one pass sends, in order, with their outcomes: the
\* single "await self._bind_pod_to_node(pod, selected_node)", which issues
\* one POST and re-raises on failure; none on the paths that return earlier
bind_requests(bind) == IF bind = "none" THEN <<>> ELSE <<bind>>

Handled(pod, nodes, r, bind, outcome, trained) ==
    [op |-> "schedule", pod |-> pod.name, eligible |-> nodes, node |-> r.node,
     path |-> r.path, bind |-> bind, requests |-> bind_requests(bind),
     outcome |-> outcome, trained |-> trained]

\* _schedule_pod after a successful bind: reward, experience, counters,
\* periodic training.  _bind_pod_to_node has counted the pod already.
AfterBind(pod, nodes, r, state) ==
    LET raises == calculate_reward_raises(pod, r.node, state)
        store  == config.enable_training
        count  == scheduled_pods + 2
        \* "scheduled_pods % training_interval" divides by zero
        modzero == config.enable_training /\ config.training_interval = 0
        due    == /\ config.enable_training
                  /\ config.training_interval # 0
                  /\ count % config.training_interval = 0
    IN \E reward \in PassRewards :
        LET mem == IF store /\ ~raises
                   THEN store_experience(memory, total_steps, state, r.node,
                                         reward, get_state)
                   ELSE memory
            tr  == train(mem, policy_net, value_net, optimizer, r.epsilon)
        IN /\ memory' = mem
           /\ total_steps' = IF store /\ ~raises THEN total_steps + 1 ELSE total_steps
           /\ scheduled_pods' = IF raises THEN scheduled_pods + 1 ELSE count
           /\ failed_schedules' = IF raises \/ modzero
                                  THEN failed_schedules + 1 ELSE failed_schedules
           \* _train_agent logs an exception of train() and returns
           /\ IF ~raises /\ due /\ ~train_raises(mem)
              THEN /\ policy_net' = tr.policy_net
                   /\ value_net' = tr.value_net
                   /\ optimizer' = tr.optimizer
                   /\ training_episodes' = training_episodes + 1
              ELSE UNCHANGED <<policy_net, value_net, optimizer, training_episodes>>
           /\ last' = Handled(pod, nodes, r, "ok",
                              IF raises \/ modzero THEN "error" ELSE "scheduled",
                              ~raises /\ due /\ ~train_raises(mem))

\* a variant that counts the pod as scheduled before the request is sent
AfterBindFailure_counted(pod, nodes, r) ==
    /\ scheduled_pods' = scheduled_pods + 1
    /\ failed_schedules' = failed_schedules + 2
    /\ last' = Handled(pod, nodes, r, "failed", "error", FALSE)
    /\ UNCHANGED <<memory, total_steps, policy_net, value_net, optimizer,
                   training_episodes>>

\* _schedule_pod after a failed bind: the failure is counted in
\* _bind_pod_to_node, which re-raises, and again in the handler's except;
\* nothing after the bind is run
AfterBindFailure(pod, nodes, r) ==
    /\ failed_schedules' = failed_schedules + 2
    /\ last' = Handled(pod, nodes, r, "failed", "error", FALSE)
    /\ UNCHANGED <<memory, total_steps, policy_net, value_net, optimizer,
                   scheduled_pods, training_episodes>>

\* _bind_pod_to_node: the binding request and what the orchestrator does
_bind_pod_to_node(pod, node_name, ok) ==
    k8s_pods' = IF ok THEN [k8s_pods EXCEPT ![pod.name].node_name = node_name]
                ELSE k8s_pods

\* a variant that asks the agent before looking at the list
NoEligibleNodes_after_select(pod, nodes) ==
    /\ failed_schedules' = failed_schedules + 1
    /\ epsilon' = Decay(epsilon)
    /\ last' = Handled(pod, nodes, [node |-> None, path |-> "none"],
                       "none", "no_eligible_nodes", FALSE)
    /\ UNCHANGED <<k8s_pods, memory, total_steps, policy_net, value_net,
                   optimizer, scheduled_pods, training_episodes>>

\* _schedule_pod, "if not nodes": counted as failed, nothing else
NoEligibleNodes(pod, nodes) ==
    /\ failed_schedules' = failed_schedules + 1
    /\ last' = Handled(pod, nodes, [node |-> None, path |-> "none"],
                       "none", "no_eligible_nodes", FALSE)
    /\ UNCHANGED <<k8s_pods, agentVars, scheduled_pods, training_episodes>>

\* _schedule_pod
_schedule_pod(pod) ==
    \E list_ok \in BOOLEAN :
        LET state == get_state
            nodes == _get_eligible_nodes(pod, list_ok)
        IN IF nodes = <<>>
           THEN NoEligibleNodes(pod, nodes)
           ELSE \E r \in select_node(nodes, epsilon) :
                /\ epsilon' = r.epsilon
                /\ IF r.path = "raise"
                   THEN \* select_node raised: the handler's except counts it
                        /\ failed_schedules' = failed_schedules + 1
                        /\ last' = Handled(pod, nodes, r, "none", "error", FALSE)
                        /\ UNCHANGED <<k8s_pods, memory, total_steps,
                                       policy_net, value_net, optimizer,
                                       scheduled_pods, training_episodes>>
                   ELSE IF r.node = None
                   THEN /\ failed_schedules' = failed_schedules + 1
                        /\ last' = Handled(pod, nodes, r, "none", "no_node_selected", FALSE)
                        /\ UNCHANGED <<k8s_pods, memory, total_steps,
                                       policy_net, value_net, optimizer,
                                       scheduled_pods, training_episodes>>
                   ELSE \E ok \in BindOutcomes(pod) :
                        /\ _bind_pod_to_node(pod, r.node, ok)
                        /\ IF ok
                           THEN AfterBind(pod, nodes, r, state)
                           ELSE AfterBindFailure(pod, nodes, r)

\* run: one iteration of "async for event in self._watch_pending_pods(w)"
HandleEvent ==
    /\ initialised
    /\ events # <<>>
    /\ events' = Tail(events)
    /\ LET event == Head(events)
       IN IF event.type \in {"ADDED", "MODIFIED"} /\ _needs_scheduling(event.object)
          THEN _schedule_pod(event.object)
          ELSE /\ last' = [op |-> "ignore", pod |-> event.object.name]
               /\ UNCHANGED <<k8s_pods, agentVars, schedVars>>
    /\ UNCHANGED <<config, checkpoint, k8s_nodes, n_events, obsVars, initialised, n_ops, concVars>>

\* DRLScheduler.initialize: the observer's first update_state (which may
\* fail like any other); the agent is built with fresh networks
initialize ==
    /\ ~initialised
    /\ initialised' = TRUE
    /\ \E o \in NodeRefreshOutcomes : update_state(o)
    /\ last' = [op |-> "initialize"]
    /\ UNCHANGED <<config, checkpoint, clusterVars, agentVars, schedVars, n_ops, concVars>>

\* a variant in which a snapshot shares its dictionaries with the observer
published_shares_caches(snap, nm, pm, cs) ==
    [nodes |-> nm, pods |-> pm, cluster |-> cs]

\* what a snapshot returned by get_state earlier holds once a refresh has
\* left the caches nm and pm and the aggregates cs: get_state copied the two
\* dictionaries and spread the aggregates into a new one, and the collectors
\* bind a newly built record to a key of the observer's own dictionaries
\* instead of updating the old record, so nothing the snapshot holds is written
published(snap, nm, pm, cs) == snap

\* _periodic_update: one round, run between two scheduling passes; the
\* snapshots the replay buffer holds live through it
PeriodicUpdate ==
    /\ initialised
    /\ clock < MaxRefresh + 1
    /\ \E o \in NodeRefreshOutcomes : update_state(o)
    /\ memory' = [i \in 1..Len(memory) |->
                    [memory[i] EXCEPT
                       !.state = published(@, node_metrics', pod_metrics',
                                           cluster_state'),
                       !.next_state = published(@, node_metrics', pod_metrics',
                                                cluster_state')]]
    /\ last' = [op |-> "update_state"]
    /\ UNCHANGED <<config, checkpoint, clusterVars, epsilon, total_steps,
                   policy_net, value_net, optimizer, schedVars, initialised,
                   n_ops, concVars>>

(***************************************************************************)
(* The orchestrator: admission of workloads and delivery of watch events.  *)
(***************************************************************************)
WatchEvent(type, pod) == [type |-> type, object |-> pod]

\* a new pending workload for this scheduler; names are used in order
PodAdded ==
    /\ initialised
    /\ n_events < MaxEvents
    /\ \E p \in PodNames : \E spec \in AdmittedSpecs :
          /\ k8s_pods[p] = Absent
          /\ p = "p2" => k8s_pods["p1"] # Absent
          /\ LET pod == Pod(p, spec, config.scheduler_name)
             IN /\ k8s_pods' = [k8s_pods EXCEPT ![p] = pod]
                /\ events' = Append(events, WatchEvent("ADDED", pod))
    /\ n_events' = n_events + 1
    /\ UNCHANGED <<config, checkpoint, k8s_nodes, obsVars, agentVars, schedVars,
                   initialised, last, n_ops, concVars>>

\* a pending workload is delivered again, as the orchestrator holds it now
PodModified ==
    /\ initialised
    /\ n_events < MaxEvents
    /\ \E p \in PodNames :
          /\ k8s_pods[p] # Absent
          /\ events' = Append(events, WatchEvent("MODIFIED", k8s_pods[p]))
    /\ n_events' = n_events + 1
    /\ UNCHANGED <<config, checkpoint, k8s_nodes, k8s_pods, obsVars, agentVars,
                   schedVars, initialised, last, n_ops, concVars>>

(***************************************************************************)
(* Spec: the scheduling loop and the observer on the event-loop thread,    *)
(* one handler at a time.                                                  *)
(***************************************************************************)
\* the defaults (exploring first, exploiting once epsilon has decayed), and
\* a greedy agent built for one node, whose forward result cannot be indexed
SchedConfigs ==
    { BaseConfig,
      [WithEpsilon(BaseConfig, [epsilon_start |-> 0, epsilon_end |-> 0, epsilon_decay |-> 995])
          EXCEPT !.max_nodes = 1] }

Init ==
    /\ config \in SchedConfigs
    /\ \E c2 \in {Tainted, Untainted} : ClusterInit(c2)
    /\ ObserverInit
    /\ AgentInit
    /\ SchedulerInit
    /\ ThreadsInit
    /\ DiskInit
    /\ initialised = FALSE
    /\ last = NoOp
    /\ n_ops = 0

Next == initialize \/ PeriodicUpdate \/ PodAdded \/ PodModified \/ HandleEvent

Spec == Init /\ [][Next]_vars

(***************************************************************************)
(* SpecBestEffort: the scheduling loop on a cluster whose second node is   *)
(* fully requested, admitting workloads that request no CPU.               *)
(***************************************************************************)
\* a workload without resource requests, and one that requests memory only
BestEffortSpecs ==
    { [containers |-> <<Container(Absent, Absent)>>,
       tolerations |-> <<>>, node_selector |-> {}],
      [containers |-> <<Container(Absent, Qty(1, "Ki"))>>,
       tolerations |-> <<>>, node_selector |-> {}] }

\* the workload placed before start-up requests all the CPU of n2
Pod0OnNode2 == [Pod0 EXCEPT !.node_name = "n2"]

\* a new pending workload of this scheduler that requests no CPU
BestEffortAdded ==
    /\ initialised
    /\ n_events < MaxEvents
    /\ \E p \in PodNames : \E spec \in BestEffortSpecs :
          /\ k8s_pods[p] = Absent
          /\ p = "p2" => k8s_pods["p1"] # Absent
          /\ LET pod == Pod(p, spec, config.scheduler_name)
             IN /\ k8s_pods' = [k8s_pods EXCEPT ![p] = pod]
                /\ events' = Append(events, WatchEvent("ADDED", pod))
    /\ n_events' = n_events + 1
    /\ UNCHANGED <<config, checkpoint, k8s_nodes, obsVars, agentVars, schedVars,
                   initialised, last, n_ops, concVars>>

InitBestEffort ==
    /\ config = BaseConfig
    /\ k8s_nodes = ClusterNodes(Untainted)
    /\ k8s_pods = [p \in AllPodNames |-> IF p = "p0" THEN Pod0OnNode2 ELSE Absent]
    /\ events = <<>>
    /\ n_events = 0
    /\ ObserverInit
    /\ AgentInit
    /\ SchedulerInit
    /\ ThreadsInit
    /\ DiskInit
    /\ initialised = FALSE
    /\ last = NoOp
    /\ n_ops = 0

NextBestEffort == initialize \/ PeriodicUpdate \/ BestEffortAdded \/ HandleEvent

SpecBestEffort == InitBestEffort /\ [][NextBestEffort]_vars

(***************************************************************************)
(* SpecTrainFail: the scheduling loop of a scheduler configured with       *)
(* TRAINING_INTERVAL=1 and BATCH_SIZE=-1, so that every training episode   *)
(* raises inside train().                                                  *)
(***************************************************************************)
InitTrainFail ==
    /\ config = [BaseConfig EXCEPT !.training_interval = 1, !.batch_size = 0 - 1]
    /\ \E c2 \in {Tainted, Untainted} : ClusterInit(c2)
    /\ ObserverInit
    /\ AgentInit
    /\ SchedulerInit
    /\ ThreadsInit
    /\ DiskInit
    /\ initialised = FALSE
    /\ last = NoOp
    /\ n_ops = 0

NextTrainFail == initialize \/ PodAdded \/ HandleEvent

SpecTrainFail == InitTrainFail /\ [][NextTrainFail]_vars

(***************************************************************************)
(* SpecConfig: construction of SchedulerConfig from the environment.       *)
(* Weights, gamma and the learning rate are in thousandths.                *)
(***************************************************************************)
\* __post_init__: whether one of its three asserts fails
__post_init__raises(reward_weights, gamma, learning_rate) ==
    \/ ~(SumOver(reward_weights, DOMAIN reward_weights) <= 1100)
    \/ ~(0 < gamma /\ gamma <= 1000)
    \/ ~(learning_rate > 0)

\* SchedulerConfig(): the fields are read from REWARD_RESOURCE_UTIL,
\* REWARD_LOAD_BALANCE, REWARD_LATENCY, REWARD_AFFINITY, REWARD_ENERGY,
\* GAMMA and LEARNING_RATE, then __post_init__ runs
ConstructConfig ==
    /\ ~initialised
    /\ last = NoOp
    /\ \E w \in [{"resource_utilization", "load_balance", "latency",
                   "affinity", "energy"} -> {0 - 100, 100, 300, 500}] :
       \E g \in {0, 990} : \E lr \in {0, 3} :
          last' = [op |-> "SchedulerConfig", reward_weights |-> w, gamma |-> g,
                   learning_rate |-> lr,
                   raises |-> __post_init__raises(w, g, lr)]
    /\ UNCHANGED <<config, checkpoint, clusterVars, obsVars, agentVars,
                   schedVars, initialised, n_ops, concVars>>

InitConfig ==
    /\ config = BaseConfig
    /\ ClusterInit(Untainted)
    /\ ObserverInit
    /\ AgentInit
    /\ SchedulerInit
    /\ ThreadsInit
    /\ DiskInit
    /\ initialised = FALSE
    /\ last = NoOp
    /\ n_ops = 0

SpecConfig == InitConfig /\ [][ConstructConfig]_vars

(***************************************************************************)
(* SpecBalance: RewardCalculator._load_balance_reward on snapshots of one  *)
(* to MaxBalanceNodes nodes.  Usages are in hundredths; for a snapshot of  *)
(* N nodes the reward is in units of 1/(2000 N), which keeps the mean, the *)
(* deviations and the weights 0.6 and 0.4 in integers.                     *)
(***************************************************************************)
Abs(x) == IF x < 0 THEN 0 - x ELSE x

RECURSIVE Isqrt(_, _, _)
\* the largest r in lo..hi with r * r <= n, found by bisection
Isqrt(n, lo, hi) ==
    IF lo >= hi THEN lo
    ELSE LET mid == (lo + hi + 1) \div 2
         IN IF mid * mid <= n THEN Isqrt(n, mid, hi) ELSE Isqrt(n, lo, mid - 1)

\* np.std over N values, times N: sqrt(sum((N x - sum)^2) / N), rounded down
StdTimesN(xs) ==
    LET N   == Len(xs)
        S   == SumSeq(xs)
        sq  == [i \in 1..N |-> (N * xs[i] - S) * (N * xs[i] - S)]
    IN Isqrt(SumSeq(sq) \div N, 0, 100 * N)

\* a variant that rewards a target for lying below the mean
_load_balance_reward_underutilized(selected_node, nodes) ==
    LET N    == Len(nodes)
        cpus == [i \in 1..N |-> nodes[i].cpu_usage]
        mems == [i \in 1..N |-> nodes[i].memory_usage]
    IN IF N < 2 THEN 2000 * N
       ELSE 6 * (200 * N - ((N * cpus[selected_node] - SumSeq(cpus))
                           + (N * mems[selected_node] - SumSeq(mems))))
            + 4 * (200 * N - (StdTimesN(cpus) + StdTimesN(mems)))

\* _load_balance_reward
_load_balance_reward(selected_node, nodes) ==
    LET N    == Len(nodes)
        cpus == [i \in 1..N |-> nodes[i].cpu_usage]
        mems == [i \in 1..N |-> nodes[i].memory_usage]
        \* N * abs(selected - mean), for CPU and for memory
        cpu_dev == Abs(N * cpus[selected_node] - SumSeq(cpus))
        mem_dev == Abs(N * mems[selected_node] - SumSeq(mems))
    IN IF N < 2 THEN 2000 * N
       ELSE 6 * (200 * N - (cpu_dev + mem_dev))
            + 4 * (200 * N - (StdTimesN(cpus) + StdTimesN(mems)))

\* the reward of every node of one snapshot as the target
BalanceReward ==
    /\ ~initialised
    /\ last = NoOp
    /\ \E N \in 1..MaxBalanceNodes :
       \E cpus \in [1..N -> {10, 50, 90}] : \E mems \in [1..N -> {20, 60}] :
          LET nodes == [i \in 1..N |-> [cpu_usage |-> cpus[i], memory_usage |-> mems[i]]]
          IN last' = [op |-> "_load_balance_reward", nodes |-> nodes,
                      reward |-> [i \in 1..N |-> _load_balance_reward(i, nodes)]]
    /\ UNCHANGED <<config, checkpoint, clusterVars, obsVars, agentVars,
                   schedVars, initialised, n_ops, concVars>>

SpecBalance == InitConfig /\ [][BalanceReward]_vars

(***************************************************************************)
(* SpecChurn: the scheduling loop and the observer while the orchestrator  *)
(* admits workloads of any scheduler and deletes workloads.                *)
(***************************************************************************)
\* spec.schedulerName of an admitted workload: this scheduler, none, another
SchedulerNames == {BaseConfig.scheduler_name, None, "other-scheduler"}

\* the shape of the workloads admitted here
ChurnSpec ==
    [containers |-> <<Container(Qty(1, ""), Qty(1, "Ki"))>>,
     tolerations |-> <<>>, node_selector |-> {}]

\* a new pending workload, of this scheduler or not
ChurnAdded ==
    /\ initialised
    /\ n_events < MaxEvents
    /\ \E p \in PodNames : \E sched \in SchedulerNames :
          /\ k8s_pods[p] = Absent
          /\ LET pod == Pod(p, ChurnSpec, sched)
             IN /\ k8s_pods' = [k8s_pods EXCEPT ![p] = pod]
                /\ events' = Append(events, WatchEvent("ADDED", pod))
    /\ n_events' = n_events + 1
    /\ UNCHANGED <<config, checkpoint, k8s_nodes, obsVars, agentVars, schedVars,
                   initialised, last, n_ops, concVars>>

\* the orchestrator deletes a workload; the watch reports it
PodDeleted ==
    /\ initialised
    /\ n_events < MaxEvents
    /\ \E p \in AllPodNames :
          /\ k8s_pods[p] # Absent
          /\ k8s_pods' = [k8s_pods EXCEPT ![p] = Absent]
          /\ events' = Append(events, WatchEvent("DELETED", k8s_pods[p]))
    /\ n_events' = n_events + 1
    /\ UNCHANGED <<config, checkpoint, k8s_nodes, obsVars, agentVars, schedVars,
                   initialised, last, n_ops, concVars>>

\* ENABLE_TRAINING=false: the passes store no experience
ChurnConfig == [BaseConfig EXCEPT !.enable_training = FALSE]

InitChurn ==
    /\ config = ChurnConfig
    /\ ClusterInit(Untainted)
    /\ ObserverInit
    /\ AgentInit
    /\ SchedulerInit
    /\ ThreadsInit
    /\ DiskInit
    /\ initialised = FALSE
    /\ last = NoOp
    /\ n_ops = 0

NextChurn ==
    initialize \/ PeriodicUpdate \/ ChurnAdded \/ PodModified \/ PodDeleted \/ HandleEvent

SpecChurn == InitChurn /\ [][NextChurn]_vars

\* SpecEvents: the scheduling loop alone, fed every kind of watch event
NextEvents == initialize \/ ChurnAdded \/ PodModified \/ PodDeleted \/ HandleEvent

SpecEvents == InitChurn /\ [][NextEvents]_vars

(***************************************************************************)
(* SpecFilter: the feasibility filter applied to workloads of every shape  *)
(* on clusters whose second node is tainted, or not ready, in every way.   *)
(***************************************************************************)
\* ENABLE_TAINTS is read from the environment
FilterConfigs == {BaseConfig, [BaseConfig EXCEPT !.enable_taints = FALSE]}

\* _get_eligible_nodes called for one pending workload
FilterPod ==
    /\ initialised
    /\ \E spec \in PodSpecs : \E list_ok \in BOOLEAN :
          LET pod == Pod("p1", spec, config.scheduler_name)
          IN last' = [op |-> "filter", pod |-> pod, list_ok |-> list_ok,
                      eligible |-> _get_eligible_nodes(pod, list_ok)]
    /\ UNCHANGED <<config, checkpoint, clusterVars, obsVars, agentVars, schedVars,
                   initialised, n_ops, concVars>>

InitFilter ==
    /\ config \in FilterConfigs
    /\ \E c2 \in Node2Choices : ClusterInit(c2)
    /\ ObserverInit
    /\ AgentInit
    /\ SchedulerInit
    /\ ThreadsInit
    /\ DiskInit
    /\ initialised = FALSE
    /\ last = NoOp
    /\ n_ops = 0

NextFilter == initialize \/ FilterPod

SpecFilter == InitFilter /\ [][NextFilter]_vars

\* the node carries a NoSchedule or NoExecute taint for which the pod has no
\* toleration with the same key and (operator Exists or an equal value)
UntoleratedTaint(pod, node) ==
    \E t \in 1..Len(node.taints) :
        /\ node.taints[t].effect \in {"NoSchedule", "NoExecute"}
        /\ ~\E k \in 1..Len(pod.tolerations) :
               /\ pod.tolerations[k].key = node.taints[t].key
               /\ \/ pod.tolerations[k].operator = "Exists"
                  \/ pod.tolerations[k].value = node.taints[t].value

\* C6 as stated: under every configuration, a node with an untolerated
\* NoSchedule or NoExecute taint is not in the list the filter returns.
C6_TaintedNeverEligible ==
    last.op = "filter" =>
        \A i \in 1..Len(k8s_nodes) :
            UntoleratedTaint(last.pod, k8s_nodes[i]) =>
                k8s_nodes[i].name \notin Range(last.eligible)

\* C6, amended: the same, under the configurations that leave the taint
\* filter switched on (enable_taints, the default).
C6_TaintedNeverEligible_WhenEnabled ==
    (last.op = "filter" /\ config.enable_taints) =>
        \A i \in 1..Len(k8s_nodes) :
            UntoleratedTaint(last.pod, k8s_nodes[i]) =>
                k8s_nodes[i].name \notin Range(last.eligible)

\* C6 witness: the filter kept n1 and dropped n2 for its NoExecute taint
\* alone: n2 is ready, the pod fits, selects no label, and tolerates the
\* taint's key but with another value
C6_Witness ==
    /\ last.op = "filter"
    /\ config.enable_taints
    /\ k8s_nodes[2].ready
    /\ k8s_nodes[2].taints = <<Taint("dedicated", "gpu", "NoExecute")>>
    /\ last.pod.tolerations = <<Toleration("dedicated", "Equal", "db")>>
    /\ last.pod.containers = <<Container(Qty(500, "m"), Absent)>>
    /\ last.pod.node_selector = {}
    /\ last.eligible = <<"n1">>

(***************************************************************************)
(* SpecMalformed: the feasibility filter on a cluster whose second node    *)
(* has a descriptor the code cannot read.                                  *)
(***************************************************************************)
\* descriptors of n2: allocatable CPU "2k", allocatable memory "4Pi", or no
\* spec at all
MalformedNodes ==
    { [name |-> "n2", ready |-> r, has_spec |-> TRUE, taints |-> <<>>,
       allocatable |-> [cpu |-> Qty(2, "k"), memory |-> Qty(4, "Ki")],
       labels |-> {<<"disk", "hdd">>}] : r \in BOOLEAN }
    \cup
    { [name |-> "n2", ready |-> r, has_spec |-> TRUE, taints |-> <<>>,
       allocatable |-> [cpu |-> Qty(2, ""), memory |-> Qty(4, "Pi")],
       labels |-> {<<"disk", "hdd">>}] : r \in BOOLEAN }
    \cup
    { [name |-> "n2", ready |-> r, has_spec |-> FALSE, taints |-> <<>>,
       allocatable |-> [cpu |-> Qty(2, ""), memory |-> Qty(4, "Ki")],
       labels |-> {<<"disk", "hdd">>}] : r \in BOOLEAN }

Malformed(node) ==
    \/ ~node.has_spec
    \/ _parse_cpu_raises(node.allocatable.cpu)
    \/ _parse_memory_raises(node.allocatable.memory)

\* the observer's first update_state: _collect_node_metrics stores n1 and
\* raises at n2 (the same parse, the same node.spec.taints); the exception
\* is not an ApiException, so update_state ends there
InitializeMalformed ==
    /\ ~initialised
    /\ initialised' = TRUE
    /\ update_state([kind |-> "exc_nodes", at |-> 1])
    /\ last' = [op |-> "initialize"]
    /\ UNCHANGED <<config, checkpoint, clusterVars, agentVars, schedVars, n_ops, concVars>>

InitMalformed ==
    /\ config \in FilterConfigs
    /\ \E n2 \in MalformedNodes : k8s_nodes = <<ClusterNodes(Untainted)[1], n2>>
    /\ k8s_pods = [p \in AllPodNames |-> IF p = "p0" THEN Pod0 ELSE Absent]
    /\ events = <<>>
    /\ n_events = 0
    /\ ObserverInit
    /\ AgentInit
    /\ SchedulerInit
    /\ ThreadsInit
    /\ DiskInit
    /\ initialised = FALSE
    /\ last = NoOp
    /\ n_ops = 0

NextMalformed == InitializeMalformed \/ FilterPod

SpecMalformed == InitMalformed /\ [][NextMalformed]_vars

\* C17: when the node list was read, every well-formed node that is ready,
\* tolerated (when taints are checked), large enough and selected by the
\* workload is in the list the filter returns, malformed nodes or not.
C17_MalformedNodeOnlyExcluded ==
    (last.op = "filter" /\ last.list_ok) =>
        \A i \in 1..Len(k8s_nodes) :
            LET node == k8s_nodes[i]
            IN (/\ ~Malformed(node)
                /\ _is_node_ready(node)
                /\ (config.enable_taints => _check_tolerations(last.pod, node))
                /\ _check_resources(last.pod, node)
                /\ _check_node_selectors(last.pod, node))
               => node.name \in Range(last.eligible)

(***************************************************************************)
(* SpecConc: the two threads of the process.  The event-loop thread runs   *)
(* the tasks run() and _periodic_update(), one at a time; a task keeps the *)
(* thread until it awaits something that suspends, and only asyncio.sleep  *)
(* does: the watch stream is a blocking iterator and every coroutine the   *)
(* pass awaits runs to its end without suspending.  The management API     *)
(* (uvicorn) runs in a thread of its own and shares the observer and the   *)
(* agent with no lock.  A step of one thread can fall between any two      *)
(* steps of the other.                                                     *)
(***************************************************************************)
\* main.py: gather() starts the run() task, which enters the watch stream
\* long before the first metrics_interval has passed
RunStart ==
    /\ initialised
    /\ run_pc = "created"
    /\ loop_task = "none"
    /\ loop_task' = "run"
    /\ run_pc' = "stream"
    /\ UNCHANGED <<config, checkpoint, clusterVars, obsVars, agentVars, schedVars,
                   initialised, last, n_ops, periodic_pc, refresh_i, frame,
                   api_pc, n_api, observed>>

\* the stream yields an event: _needs_scheduling, and _schedule_pod up to
\* its call of select_node
StreamYield ==
    /\ loop_task = "run"
    /\ run_pc = "stream"
    /\ events # <<>>
    /\ events' = Tail(events)
    /\ LET event == Head(events)
           pod   == event.object
       IN IF event.type \in {"ADDED", "MODIFIED"} /\ _needs_scheduling(pod)
          THEN \E list_ok \in BOOLEAN :
                 LET state == get_state
                     nodes == _get_eligible_nodes(pod, list_ok)
                 IN /\ observed' = [reader |-> "loop", state |-> state]
                    /\ IF nodes = <<>>
                       THEN /\ failed_schedules' = failed_schedules + 1
                            /\ last' = Handled(pod, nodes, [node |-> None, path |-> "none"],
                                               "none", "no_eligible_nodes", FALSE)
                            /\ UNCHANGED <<run_pc, frame>>
                       ELSE /\ run_pc' = "select_node"
                            /\ frame' = [pod |-> pod, nodes |-> nodes, state |-> state]
                            /\ UNCHANGED <<failed_schedules, last>>
          ELSE /\ last' = [op |-> "ignore", pod |-> pod.name]
               /\ UNCHANGED <<failed_schedules, run_pc, frame, observed>>
    /\ UNCHANGED <<config, checkpoint, k8s_nodes, k8s_pods, n_events, obsVars, agentVars,
                   scheduled_pods, training_episodes, initialised, n_ops,
                   loop_task, periodic_pc, refresh_i, api_pc, n_api>>

\* select_node returns (or raises); then the binding and the reward
RunSelect ==
    /\ loop_task = "run"
    /\ run_pc = "select_node"
    /\ LET pod == frame.pod
           nodes == frame.nodes
       IN \E r \in select_node(nodes, epsilon) :
          /\ epsilon' = r.epsilon
          /\ IF r.path = "raise"
             THEN /\ failed_schedules' = failed_schedules + 1
                  /\ last' = Handled(pod, nodes, r, "none", "error", FALSE)
                  /\ run_pc' = "stream"
                  /\ frame' = Absent
                  /\ UNCHANGED <<k8s_pods, scheduled_pods>>
             ELSE \E ok \in BindOutcomes(pod) :
                  /\ _bind_pod_to_node(pod, r.node, ok)
                  /\ IF ~ok
                     THEN /\ failed_schedules' = failed_schedules + 2
                          /\ last' = Handled(pod, nodes, r, "failed", "error", FALSE)
                          /\ run_pc' = "stream"
                          /\ frame' = Absent
                          /\ UNCHANGED scheduled_pods
                     ELSE IF calculate_reward_raises(pod, r.node, frame.state)
                     THEN /\ scheduled_pods' = scheduled_pods + 1
                          /\ failed_schedules' = failed_schedules + 1
                          /\ last' = Handled(pod, nodes, r, "ok", "error", FALSE)
                          /\ run_pc' = "stream"
                          /\ frame' = Absent
                     ELSE IF config.enable_training
                     THEN /\ scheduled_pods' = scheduled_pods + 1
                          /\ run_pc' = "store_experience"
                          /\ frame' = [pod |-> pod, nodes |-> nodes,
                                       state |-> frame.state, r |-> r]
                          /\ UNCHANGED <<failed_schedules, last>>
                     ELSE /\ scheduled_pods' = scheduled_pods + 2
                          /\ last' = Handled(pod, nodes, r, "ok", "scheduled", FALSE)
                          /\ run_pc' = "stream"
                          /\ frame' = Absent
                          /\ UNCHANGED failed_schedules
    /\ UNCHANGED <<config, checkpoint, k8s_nodes, events, n_events, obsVars, memory,
                   total_steps, policy_net, value_net, optimizer,
                   training_episodes, initialised, n_ops, loop_task,
                   periodic_pc, refresh_i, api_pc, n_api, observed>>

\* store_experience returns; the pass counts the pod a second time and
\* decides whether training is due
RunStore ==
    /\ loop_task = "run"
    /\ run_pc = "store_experience"
    /\ \E reward \in PassRewards :
          memory' = store_experience(memory, total_steps, frame.state,
                                     frame.r.node, reward, get_state)
    /\ total_steps' = total_steps + 1
    /\ scheduled_pods' = scheduled_pods + 1
    /\ IF config.training_interval = 0
       THEN \* the modulo raises: the handler's except counts a failure
            /\ failed_schedules' = failed_schedules + 1
            /\ run_pc' = "stream"
            /\ frame' = Absent
            /\ last' = Handled(frame.pod, frame.nodes, frame.r, "ok", "error", FALSE)
       ELSE IF (scheduled_pods + 1) % config.training_interval = 0
       THEN /\ run_pc' = "train"
            /\ UNCHANGED <<frame, last, failed_schedules>>
       ELSE /\ run_pc' = "stream"
            /\ frame' = Absent
            /\ last' = Handled(frame.pod, frame.nodes, frame.r, "ok", "scheduled", FALSE)
            /\ UNCHANGED failed_schedules
    /\ UNCHANGED <<config, checkpoint, clusterVars, obsVars, epsilon, policy_net, value_net,
                   optimizer, training_episodes, initialised,
                   n_ops, loop_task, periodic_pc, refresh_i, api_pc, n_api,
                   observed>>

\* _train_agent: train() returns, the episode is counted
RunTrain ==
    /\ loop_task = "run"
    /\ run_pc = "train"
    /\ LET tr == train(memory, policy_net, value_net, optimizer, epsilon)
       IN /\ policy_net' = tr.policy_net
          /\ value_net' = tr.value_net
          /\ optimizer' = tr.optimizer
    /\ training_episodes' = training_episodes + 1
    /\ run_pc' = "stream"
    /\ frame' = Absent
    /\ last' = Handled(frame.pod, frame.nodes, frame.r, "ok", "scheduled", TRUE)
    /\ UNCHANGED <<config, checkpoint, clusterVars, obsVars, memory, epsilon, total_steps,
                   scheduled_pods, failed_schedules, initialised, n_ops,
                   loop_task, periodic_pc, refresh_i, api_pc, n_api, observed>>

\* a variant in which only an expired watch is resumed
WatchResumes_expired_only(outcome) ==
    IF outcome = "expired" THEN "restart" ELSE "ended"

\* _watch_pending_pods: where the generator goes on when the stream ended
\* by its timeout or with ApiException 410 ("continue": the next pass of
\* "while True"), or with another ApiException or any other Exception
\* ("await asyncio.sleep(5)", then the next pass)
WatchResumes(outcome) ==
    IF outcome \in {"timeout", "expired"} THEN "restart" ELSE "sleep"

\* the stream has nothing left to yield and ends (timeout_seconds=60), or
\* the watch expires (410): the generator loops, nothing is awaited
StreamEnds ==
    /\ loop_task = "run"
    /\ run_pc = "stream"
    /\ events = <<>>
    /\ \E outcome \in {"timeout", "expired"} : run_pc' = WatchResumes(outcome)
    /\ UNCHANGED <<config, checkpoint, clusterVars, obsVars, agentVars, schedVars,
                   initialised, last, n_ops, loop_task, periodic_pc, refresh_i,
                   frame, api_pc, n_api, observed>>

\* "stream = w.stream(...)": the next watch request
StreamRestart ==
    /\ loop_task = "run"
    /\ run_pc = "restart"
    /\ run_pc' = "stream"
    /\ UNCHANGED <<config, checkpoint, clusterVars, obsVars, agentVars, schedVars,
                   initialised, last, n_ops, loop_task, periodic_pc, refresh_i,
                   frame, api_pc, n_api, observed>>

\* the watch fails otherwise: "await asyncio.sleep(5)" gives up the thread
StreamError ==
    /\ loop_task = "run"
    /\ run_pc = "stream"
    /\ \E outcome \in {"api_error", "error"} : run_pc' = WatchResumes(outcome)
    /\ loop_task' = "none"
    /\ UNCHANGED <<config, checkpoint, clusterVars, obsVars, agentVars, schedVars,
                   initialised, last, n_ops, periodic_pc, refresh_i, frame,
                   api_pc, n_api, observed>>

\* the 5 seconds are over and the thread is free
RunResume ==
    /\ loop_task = "none"
    /\ run_pc = "sleep"
    /\ run_pc' = "restart"
    /\ loop_task' = "run"
    /\ UNCHANGED <<config, checkpoint, clusterVars, obsVars, agentVars, schedVars,
                   initialised, last, n_ops, periodic_pc, refresh_i, frame,
                   api_pc, n_api, observed>>

\* _periodic_update: metrics_interval is over and the thread is free;
\* update_state begins
PeriodicWake ==
    /\ loop_task = "none"
    /\ run_pc # "created"
    /\ periodic_pc = "sleep"
    /\ clock < MaxRefresh + 1
    /\ loop_task' = "periodic"
    /\ periodic_pc' = "nodes"
    /\ refresh_i' = 0
    /\ clock' = clock + 1
    /\ UNCHANGED <<config, checkpoint, clusterVars, node_metrics, pod_metrics, cluster_state,
                   agentVars, schedVars, initialised, last, n_ops, run_pc, frame,
                   api_pc, n_api, observed>>

\* the refresh is over (or was given up): back to asyncio.sleep
RefreshReturns ==
    /\ periodic_pc' = "sleep"
    /\ loop_task' = "none"
    /\ refresh_i' = 0

\* _collect_node_metrics: one round of its loop (two blocking API calls,
\* then the entry is stored), or the exception that ends the loop
RefreshNode ==
    /\ loop_task = "periodic"
    /\ periodic_pc = "nodes"
    /\ \E kind \in {"ok", "api_nodes", "exc_nodes"} :
          CASE kind = "ok" ->
                 /\ node_metrics' = _collect_node_metrics(node_metrics, refresh_i + 1, clock)
                 /\ refresh_i' = refresh_i + 1
                 /\ periodic_pc' = IF refresh_i + 1 = Len(k8s_nodes) THEN "pods" ELSE "nodes"
                 /\ UNCHANGED loop_task
            [] kind = "api_nodes" ->
                 /\ periodic_pc' = "pods"
                 /\ UNCHANGED <<node_metrics, refresh_i, loop_task>>
            [] kind = "exc_nodes" ->
                 /\ RefreshReturns
                 /\ UNCHANGED node_metrics
    /\ UNCHANGED <<config, checkpoint, clusterVars, clock, pod_metrics, cluster_state,
                   agentVars, schedVars, initialised, last, n_ops, run_pc, frame,
                   api_pc, n_api, observed>>

\* _collect_pod_metrics
RefreshPods ==
    /\ loop_task = "periodic"
    /\ periodic_pc = "pods"
    /\ \E kind \in {"ok", "api_pods", "exc_pods"} :
          CASE kind = "ok" ->
                 /\ pod_metrics' = _collect_pod_metrics(pod_metrics, clock)
                 /\ periodic_pc' = "aggregate"
                 /\ UNCHANGED <<refresh_i, loop_task>>
            [] kind = "api_pods" ->
                 /\ periodic_pc' = "aggregate"
                 /\ UNCHANGED <<pod_metrics, refresh_i, loop_task>>
            [] kind = "exc_pods" ->
                 /\ RefreshReturns
                 /\ UNCHANGED pod_metrics
    /\ UNCHANGED <<config, checkpoint, clusterVars, clock, node_metrics, cluster_state,
                   agentVars, schedVars, initialised, last, n_ops, run_pc, frame,
                   api_pc, n_api, observed>>

\* _calculate_cluster_metrics, and update_state returns
RefreshAggregate ==
    /\ loop_task = "periodic"
    /\ periodic_pc = "aggregate"
    /\ cluster_state' = _calculate_cluster_metrics(cluster_state, node_metrics, clock)
    /\ RefreshReturns
    /\ UNCHANGED <<config, checkpoint, clusterVars, clock, node_metrics, pod_metrics,
                   agentVars, schedVars, initialised, last, n_ops, run_pc, frame,
                   api_pc, n_api, observed>>

\* GET /cluster/state, /cluster/nodes: get_state() in the API thread
ApiGetState ==
    /\ initialised
    /\ api_pc = "idle"
    /\ n_api < MaxApi
    /\ n_api' = n_api + 1
    /\ observed' = [reader |-> "api", state |-> get_state]
    /\ UNCHANGED <<config, checkpoint, clusterVars, obsVars, agentVars, schedVars,
                   initialised, last, n_ops, loop_task, run_pc, periodic_pc,
                   refresh_i, frame, api_pc>>

\* POST /training/trigger: the handler calls drl_agent.train()
ApiTrainBegin ==
    /\ initialised
    /\ api_pc = "idle"
    /\ n_api < MaxApi
    /\ n_api' = n_api + 1
    /\ api_pc' = "train"
    /\ UNCHANGED <<config, checkpoint, clusterVars, obsVars, agentVars, schedVars,
                   initialised, last, n_ops, loop_task, run_pc, periodic_pc,
                   refresh_i, frame, observed>>

\* train() returns in the API thread: it acted on the agent as it found it
ApiTrainEnd ==
    /\ api_pc = "train"
    /\ LET tr == train(memory, policy_net, value_net, optimizer, epsilon)
       IN /\ policy_net' = tr.policy_net
          /\ value_net' = tr.value_net
          /\ optimizer' = tr.optimizer
    /\ api_pc' = "idle"
    /\ UNCHANGED <<config, checkpoint, clusterVars, obsVars, memory, epsilon, total_steps,
                   schedVars, initialised, last, n_ops, loop_task, run_pc,
                   periodic_pc, refresh_i, frame, n_api, observed>>

ConcConfigs == {BaseConfig}

InitConc ==
    /\ config \in ConcConfigs
    /\ ClusterInit(Untainted)
    /\ ObserverInit
    /\ AgentInit
    /\ SchedulerInit
    /\ ThreadsInit
    /\ DiskInit
    /\ initialised = FALSE
    /\ last = NoOp
    /\ n_ops = 0

\* the steps of the run() task that need nothing but the thread it holds
RunNext == StreamYield \/ RunSelect \/ RunStore \/ RunTrain \/ StreamEnds \/ StreamRestart

\* the steps of a refresh that has begun
RefreshNext == RefreshNode \/ RefreshPods \/ RefreshAggregate

NextConc ==
    \/ initialize \/ PodAdded
    \/ RunStart \/ StreamYield \/ RunSelect \/ RunStore \/ RunTrain
    \/ StreamEnds \/ StreamRestart \/ StreamError \/ RunResume
    \/ PeriodicWake \/ RefreshNode \/ RefreshPods \/ RefreshAggregate
    \/ ApiGetState \/ ApiTrainBegin \/ ApiTrainEnd

SpecConc == InitConc /\ [][NextConc]_vars

\* the event loop runs every task that is ready: a task holding the thread
\* takes its next step, a sleeper whose time is over wakes once the thread
\* is free.  Nothing obliges the watch to fail or the API to be called.
SpecConcFair ==
    /\ SpecConc
    /\ WF_vars(RunStart)
    /\ WF_vars(RunNext)
    /\ WF_vars(RunResume)
    /\ SF_vars(PeriodicWake)
    /\ WF_vars(RefreshNext)

\* SpecWatch: the run() task alone on the event-loop thread
NextWatch ==
    \/ initialize \/ PodAdded
    \/ RunStart \/ StreamYield \/ RunSelect \/ RunStore \/ RunTrain
    \/ StreamEnds \/ StreamRestart \/ StreamError \/ RunResume

SpecWatch == InitConc /\ [][NextWatch]_vars

SpecWatchFair ==
    /\ SpecWatch
    /\ WF_vars(RunStart)
    /\ WF_vars(RunNext)
    /\ WF_vars(RunResume)

\* SpecStop: the observer's refresh task and a run() task whose watch fails,
\* on the event-loop thread, with DRLScheduler.shutdown() awaited by another
\* task of that loop while the thread is free (main.py awaits it in
\* SchedulerManager.stop)
NextStop ==
    \/ initialize \/ RunStart \/ StreamError \/ RunResume
    \/ PeriodicWake \/ RefreshNext
    \/ (loop_task = "none" /\ Shutdown)

SpecStop == InitConc /\ [][NextStop]_vars

\* the places the run() task can be at
RunPcs ==
    {"created", "stream", "select_node", "store_experience", "train", "restart", "sleep"}

\* C24: the generator of watch events never ends (the task is always at
\* one of its places), and whenever the stream ended by timeout, expiry or
\* an error, or a pass is under way, the task is back in a watch stream
\* later on, where queued events are yielded.
C24_WatchResumes ==
    /\ [](run_pc \in RunPcs)
    /\ (run_pc \in RunPcs \ {"created", "stream"}) ~> (run_pc = "stream")

\* C24 witness: after a pass had placed a pod the watch failed with an
\* event queued, and the task sleeps before it watches again
C24_Witness ==
    /\ run_pc = "sleep"
    /\ loop_task = "none"
    /\ events # <<>>
    /\ scheduled_pods > 0

(***************************************************************************)
(* Claims about the threads, under SpecConc and SpecConcFair.              *)
(***************************************************************************)
\* the snapshot's per-node entries and aggregates all stem from refresh t
FromRefresh(s, t) ==
    /\ s.cluster # Absent
    /\ s.cluster.timestamp = t
    /\ \A n \in NodeNames : s.nodes[n] # Absent /\ s.nodes[n].timestamp = t

\* C2: whatever get_state returns, to the scheduling loop or to the API
\* thread, its per-node metrics and its aggregates come from one and the
\* same refresh, with every node of the cluster in it.
C2_SnapshotFromOneRefresh ==
    observed # Absent => \E t \in 1..(MaxRefresh + 1) : FromRefresh(observed.state, t)

\* C3: the refresh recurs: whenever the observer has made k refreshes, a
\* further one eventually begins (for as many as one behaviour holds).
C3_RefreshRecurs ==
    \A k \in 1..MaxRefresh : (initialised /\ clock = k) ~> (clock > k)

\* C4: the API thread is never inside train() while the scheduling loop is
\* inside select_node, store_experience or train.
C4_AgentOpsSerialized ==
    ~(api_pc = "train" /\ run_pc \in {"select_node", "store_experience", "train"})

(***************************************************************************)
(* Claims about the scheduling pass, under Spec.                           *)
(***************************************************************************)
\* the step is one iteration of the scheduling loop that ran _schedule_pod
PassStep == Len(events') < Len(events) /\ last'.op = "schedule"

\* C1: in every scheduling pass the node handed to the bind operation is a
\* member of the eligible list the filter computed in that pass, whichever
\* path of select_node chose it (explore, exploit or fallback); a binding the
\* orchestrator accepted places the pod on exactly that node.
C1_BindTargetEligible ==
    (last.op = "schedule" /\ last.bind # "none") =>
        /\ last.path \in {"explore", "exploit", "fallback"}
        /\ last.node \in Range(last.eligible)
        /\ last.bind = "ok" => k8s_pods[last.pod].node_name = last.node

\* C1 witness: a pod was bound on the fallback path while one node of the
\* cluster was not eligible for it
C1_Witness ==
    /\ last.op = "schedule"
    /\ last.bind = "ok"
    /\ last.path = "fallback"
    /\ last.eligible = <<"n1">>
    /\ k8s_pods[last.pod].node_name = "n1"

\* C5: for an empty eligible list select_node yields None, and a pass whose
\* eligible list is empty selects nothing and sends no binding: the
\* orchestrator's pods stay as they were.
C5_EmptyEligibleNoBind ==
    [][ /\ \A r \in select_node(<<>>, epsilon) : r.node = None
        /\ (PassStep /\ last'.eligible = <<>>) =>
              /\ last'.node = None
              /\ last'.bind = "none"
              /\ k8s_pods' = k8s_pods ]_vars

\* C5 witness: a pass found no eligible node although the node list was read
C5_Witness ==
    /\ last.op = "schedule"
    /\ last.eligible = <<>>
    /\ last.outcome = "no_eligible_nodes"
    /\ failed_schedules > 0
    /\ k8s_pods[last.pod].node_name = None

\* the observer's recorded cpu_used of a node (0 while the node is unknown)
RecordedCpuUsed(nm, n) == IF nm[n] = Absent THEN 0 ELSE nm[n].cpu_used

\* C7: a pass that placed a workload requesting c CPU on node n leaves the
\* observer's cpu_used of n grown by c and cpu_usage recomputed from it.
C7_PlacementRecorded ==
    [][ (PassStep /\ last'.bind = "ok") =>
            LET n == last'.node
                c == RequestedCpu(k8s_pods'[last'.pod].containers)
            IN /\ node_metrics'[n] # Absent
               /\ node_metrics'[n].cpu_used = RecordedCpuUsed(node_metrics, n) + c
               /\ node_metrics'[n].cpu_usage =
                     Ratio(node_metrics'[n].cpu_used, node_metrics'[n].cpu_allocatable)
      ]_vars

\* C13: a pass whose bind fails increments the failure counter, leaves
\* scheduled_pods alone, appends no experience and runs no training; the pod
\* stays where it was.
C13_BindFailureNotCounted ==
    [][ (PassStep /\ last'.bind = "failed") =>
            /\ failed_schedules' > failed_schedules
            /\ scheduled_pods' = scheduled_pods
            /\ memory' = memory
            /\ total_steps' = total_steps
            /\ ~last'.trained
            /\ UNCHANGED <<policy_net, value_net, optimizer, training_episodes>>
            /\ k8s_pods' = k8s_pods ]_vars

\* C13 witness: a bind failed after an earlier pass had placed a pod and
\* stored its experience
C13_Witness ==
    /\ last.op = "schedule"
    /\ last.bind = "failed"
    /\ failed_schedules > 0
    /\ scheduled_pods > 0
    /\ Len(memory) > 0

\* the placements bound so far: the pods of this scheduler that sit on a node
Placements == {p \in PodNames : k8s_pods[p] # Absent /\ k8s_pods[p].node_name # None}

\* C14: scheduled_pods equals the number of placements that were bound.
C14_ScheduledCountsPlacements ==
    scheduled_pods = Cardinality(Placements)

\* C15: with training enabled and a positive training_interval, the pass
\* that makes the k-th placement calls train() iff k is a multiple of
\* training_interval, and no other pass trains.
C15_TrainsEveryInterval ==
    [][ (PassStep /\ config.enable_training /\ config.training_interval > 0) =>
            (last'.trained <=>
                (/\ last'.bind = "ok"
                 /\ Cardinality(Placements') % config.training_interval = 0)) ]_vars

\* C16: no pass counts its event both as scheduled and as failed.
C16_OneTerminalState ==
    [][ PassStep =>
            ~(scheduled_pods' > scheduled_pods /\ failed_schedules' > failed_schedules) ]_vars

\* C18: calculate_reward does not raise for the placement a pass has bound,
\* whatever the snapshot holds for the chosen node.
C18_RewardNeverRaises ==
    (last.op = "schedule" /\ last.bind = "ok") =>
        ~calculate_reward_raises(k8s_pods[last.pod], last.node, get_state)

(***************************************************************************)
(* Claims about the agent, under SpecAgent.                                *)
(***************************************************************************)
\* C8: across select_node calls epsilon never grows and is never below
\* epsilon_end; a selection on a non-empty eligible list sets it to
\* max(epsilon_end, epsilon * epsilon_decay).
C8_EpsilonDecays ==
    [][ (last'.op = "select_node" /\ n_ops' = n_ops + 1) =>
            /\ epsilon' <= epsilon
            /\ epsilon >= config.epsilon_end
            /\ epsilon' >= config.epsilon_end
            /\ (last'.node # None => epsilon' = Decay(epsilon)) ]_vars

\* C9: the replay buffer never exceeds its capacity and holds exactly the
\* newest experiences, oldest first (the n-th stored experience has id n).
C9_BufferFifo ==
    /\ Len(memory) <= maxlen
    /\ Len(memory) = Min(total_steps, maxlen)
    /\ \A i \in 1..Len(memory) : memory[i].id = total_steps - Len(memory) + i

\* C9 witness: capacity + 1 inserts were made; the first is gone, the last is there
C9_Witness ==
    /\ total_steps = maxlen + 1
    /\ Len(memory) = maxlen
    /\ \A i \in 1..Len(memory) : memory[i].id # 1
    /\ memory[Len(memory)].id = maxlen + 1

\* C10: train() on a buffer shorter than batch_size returns the empty
\* metrics and changes neither the networks, the optimizer, epsilon, the
\* step counter nor the buffer.
C10_TrainSkipsUntouched ==
    [][ (last'.op = "train" /\ n_ops' = n_ops + 1
         /\ Len(memory) < config.batch_size) =>
            /\ last'.metrics = Absent
            /\ UNCHANGED agentVars ]_vars

\* C10 witness: a train() call was skipped on a non-empty buffer
C10_Witness ==
    /\ last.op = "train"
    /\ last.metrics = Absent
    /\ 0 < Len(memory)
    /\ Len(memory) < config.batch_size

\* C19: for every non-empty eligible list handed to select_node, the feature
\* vector of _encode_state has the width the policy network was built with.
C19_StateWidthFixed ==
    (last.op = "select_node" /\ last.eligible # <<>>) =>
        _encode_state(last.eligible) = _get_state_dimension

\* C20: with epsilon = 0, a call of select_node on a non-empty eligible list
\* returns what every other call from the same agent state, snapshot and
\* list returns.
C20_GreedyDeterministic ==
    [][ (/\ n_ops' = n_ops + 1
         /\ last'.op = "select_node"
         /\ last'.eligible # <<>>
         /\ epsilon = 0) =>
            \A r \in select_node(last'.eligible, epsilon) : r.node = last'.node ]_vars

\* C21: in every snapshot get_state returns, each node's cpu_usage and
\* memory_usage lie in [0, 1] when the allocatable amount is positive and
\* are 0 otherwise (ratios in thousandths).
C21_UsageWithinUnit ==
    \A n \in Known(get_state.nodes) :
        LET nm == get_state.nodes[n]
        IN /\ IF nm.cpu_allocatable > 0
              THEN 0 <= nm.cpu_usage /\ nm.cpu_usage <= 1000
              ELSE nm.cpu_usage = 0
           /\ IF nm.memory_allocatable > 0
              THEN 0 <= nm.memory_usage /\ nm.memory_usage <= 1000
              ELSE nm.memory_usage = 0

\* C22: after a refresh has run, the snapshot holds a workload entry only
\* for workloads the orchestrator still lists.
C22_DeletedPodsLeaveSnapshot ==
    [][ (clock' > clock /\ last'.op = "update_state") =>
            \A p \in AllPodNames :
                get_state'.pods[p] # Absent => k8s_pods'[p] # Absent ]_vars

\* C26: handling one event sends at most one binding request; after a
\* refused request the pass sends no further one: the refusal is the only
\* request of the pass, the workload is as unassigned as before and no
\* placement is counted.
C26_AtMostOneBind ==
    [][PassStep =>
         /\ Len(last'.requests) <= 1
         /\ last'.bind = "failed" =>
               /\ last'.requests = <<"failed">>
               /\ k8s_pods' = k8s_pods
               /\ scheduled_pods' = scheduled_pods]_vars

C26_Witness ==
    /\ last.op = "schedule" /\ last.requests = <<"failed">>
    /\ k8s_pods[last.pod] # Absent /\ k8s_pods[last.pod].node_name = None

\* C27: an event is taken through filtering, selection and bind only if its
\* type is ADDED or MODIFIED and its workload is Pending, unassigned and
\* names this scheduler; a DELETED event, an event of an assigned workload
\* and an event of a workload of another scheduler or of none are dropped:
\* the orchestrator's workloads, the agent and the counters stay as they are.
C27_OnlyOwnPendingHandled ==
    [][Len(events') < Len(events) =>
         LET event == Head(events)
             pod   == event.object
         IN /\ last'.op = "schedule" =>
                  /\ event.type \in {"ADDED", "MODIFIED"}
                  /\ pod.phase = "Pending"
                  /\ pod.node_name = None
                  /\ pod.scheduler_name = config.scheduler_name
            /\ (\/ event.type = "DELETED"
                \/ pod.node_name # None
                \/ pod.scheduler_name # config.scheduler_name) =>
                  /\ last'.op = "ignore"
                  /\ UNCHANGED <<k8s_pods, agentVars, schedVars>>]_vars

C27_Witness ==
    /\ last.op = "ignore"
    /\ k8s_pods[last.pod] # Absent
    /\ k8s_pods[last.pod].phase = "Pending"
    /\ k8s_pods[last.pod].scheduler_name = None
    /\ scheduled_pods > 0

\* C28: a pass that finds no eligible node changes nothing but the failure
\* count, which grows by one: epsilon, the replay buffer, the step counter,
\* the networks, the count of scheduled workloads and of training episodes,
\* the observer's snapshot and the orchestrator's workloads are unchanged.
C28_EmptyEligibleOnlyCounts ==
    [][(PassStep /\ last'.eligible = <<>>) =>
         /\ failed_schedules' = failed_schedules + 1
         /\ UNCHANGED <<epsilon, memory, total_steps, policy_net, value_net,
                        optimizer, scheduled_pods, training_episodes,
                        obsVars, k8s_pods, k8s_nodes, config>>]_vars

C28_Witness ==
    /\ last.op = "schedule" /\ last.eligible = <<>>
    /\ memory # <<>> /\ epsilon < config.epsilon_start
    /\ failed_schedules = 1

C30_InvalidWeightsRejected ==
    last.op = "SchedulerConfig" =>
        LET w   == last.reward_weights
            sum == SumOver(w, DOMAIN w)
            neg == \E k \in DOMAIN w : w[k] < 0
        IN /\ sum > 1100 => last.raises
           /\ neg => last.raises
           /\ (sum <= 1100 /\ ~neg /\ last.gamma = 990 /\ last.learning_rate = 3)
                 => ~last.raises

C31_FailedNodeFetchZeroed ==
    [][(/\ last'.op = "update_state" /\ clock' > clock
        /\ \A n \in NodeNames :
              node_metrics'[n] # Absent => node_metrics'[n].timestamp # clock')
         => /\ \A p \in AllPodNames :
                  k8s_pods[p] # Absent =>
                     (pod_metrics'[p] # Absent /\ pod_metrics'[p].timestamp = clock')
            /\ \A n \in NodeNames : node_metrics'[n] = Absent]_vars

C33_NoRefreshAfterShutdown ==
    [][(periodic_pc = "sleep" /\ periodic_pc' # "sleep")
          => ~(last.op = "shutdown" /\ ~initialised)]_vars

\* C34: on no node do the CPU requests, or the memory requests, of the
\* workloads this scheduler has bound to it add up to more than the node's
\* allocatable amount, the most a snapshot can show as available.
C34_NoOvercommit ==
    \A n \in NodeNames :
        LET bound == {p \in Placements : k8s_pods[p].node_name = n}
            cpu == [p \in PodNames |->
                       IF p \in bound THEN RequestedCpu(k8s_pods[p].containers) ELSE 0]
            mem == [p \in PodNames |->
                       IF p \in bound THEN RequestedMemory(k8s_pods[p].containers) ELSE 0]
        IN /\ SumOver(cpu, PodNames) <= _parse_cpu(NodeByName(n).allocatable.cpu)
           /\ SumOver(mem, PodNames) <= _parse_memory(NodeByName(n).allocatable.memory)

\* C35: an event of a workload that the orchestrator already holds assigned
\* to a node leads to no further binding request for it, also when the
\* event itself still shows the workload Pending and unassigned.
C35_NoRebindAfterBind ==
    [][(Len(events') < Len(events)
        /\ k8s_pods[Head(events).object.name] # Absent
        /\ k8s_pods[Head(events).object.name].node_name # None)
          => (last'.op = "schedule" => last'.requests = <<>>)]_vars

C37_FailedCountsFailedPasses ==
    [][PassStep =>
         failed_schedules' = failed_schedules +
             (IF last'.outcome \in {"no_eligible_nodes", "no_node_selected", "error"}
              THEN 1 ELSE 0)]_vars

\* C38: training_episodes grows only with a training step that was carried
\* out: whenever the counter grows, the replay buffer held at least
\* batch_size experiences when train() was called, and train() updated the
\* policy network.
C38_EpisodesCountTrainingSteps ==
    [][training_episodes' > training_episodes =>
         /\ ~train_skips(memory')
         /\ policy_net' # policy_net]_vars

\* C39: a load of an existing checkpoint is all-or-nothing: after an
\* initialize() that calls load_model on a fresh agent, whose optimizer is
\* not yet constructed, the policy network, the value network, epsilon and
\* the step counter are either all those of the checkpoint or all those of
\* the fresh agent.
C39_LoadAllOrNothing ==
    [][(n_ops' = n_ops + 1 /\ last'.op = "initialize" /\ last'.loads
        /\ checkpoint # Absent) =>
          \/ /\ policy_net' = checkpoint.policy_state_dict
             /\ value_net' = checkpoint.value_state_dict
             /\ epsilon' = checkpoint.epsilon
             /\ total_steps' = checkpoint.total_steps
          \/ /\ policy_net' = FreshAgent.policy_net
             /\ value_net' = FreshAgent.value_net
             /\ epsilon' = FreshAgent.epsilon
             /\ total_steps' = FreshAgent.total_steps]_vars

\* C40: without a load, every store_experience call raises the step counter
\* by one and leaves the buffer with min(step counter, capacity) experiences;
\* select_node and train change neither the step counter nor the buffer; and
\* every experience in the buffer has done = False.
C40_StepsCountStores ==
    [][n_ops' = n_ops + 1 =>
         /\ last'.op = "store_experience" =>
               /\ total_steps' = total_steps + 1
               /\ Len(memory') = Min(total_steps', maxlen)
         /\ last'.op \in {"select_node", "train"} =>
               UNCHANGED <<memory, total_steps>>
         /\ \A i \in 1..Len(memory') : memory'[i].done = FALSE]_vars

\* C40 witness: the buffer was filled beyond its capacity, then a node was
\* selected and a training step carried out
C40_Witness ==
    /\ last.op = "train" /\ last.metrics # Absent
    /\ epsilon < config.epsilon_start
    /\ total_steps = maxlen + 1
    /\ Len(memory) = maxlen
    /\ \A i \in 1..Len(memory) : memory[i].done = FALSE

====
